---- MODULE Spec2Model ----
(***************************************************************************)
(* A model of the colour matcher and of the stamp encoders of             *)
(* imagePawcessor (src/imagePawcessor/imagePawcess.py).                    *)
(*                                                                         *)
(* An image is a record [w, h, px] with px a function from <<x, y>> to a   *)
(* pixel <<rgb, a>>; images are RGBA, as prepare_image makes them.  A text *)
(* file is the sequence of its lines; a coordinate field of a line is the  *)
(* decimal that round(n * 0.1, 1) prints, kept as <<units, tenths>>.       *)
(***************************************************************************)
EXTENDS Integers, Sequences, FiniteSets, TLC

VARIABLES
    pc,                 \* position of the running operation
    use_lab,            \* the module-level flag use_lab (line 102)
    color_key_array,    \* the palette handed to the run
    img,                \* the image process_image returned (line 1262)
    scalar_out,         \* last call of find_closest_color: <<coordinate, number>>
    batched_out,        \* result of find_closest_colors_image
    preview_png,        \* the image bound to img from line 1282 on, saved as preview.png
    stamp_txt,          \* game_data/current_stamp_data/stamp.txt
    frames_txt,         \* game_data/current_stamp_data/frames.txt
    frames_in,          \* per frame, the image process_image returned
    durations,          \* per frame, img.info['duration'] when the file gives one
    delays,             \* the list delays gathered by process_and_save_gif
    frame_files,        \* game_data/frames/frame_<k>.png
    total_frames,
    uniform_delay,
    Frame1Array,
    first_frame_pixels,
    frame_number,
    header_frame_number,
    process_mode,       \* the name of the processing method (process_image, line 596)
    process_params,     \* its params: [strength, seed]
    rng_state,          \* the state of numpy's global random generator
    calls,              \* the calls of a processing method made so far, with their results
    source,             \* the frames of the image main opened (one frame for a still image)
    use_lab_flag,       \* main's argument use_lab_flag
    preprocess_flag,    \* main's argument preprocess_flag
    fault,              \* the failures the environment inflicts on the run
    errors,             \* the messages passed to error_callback, in order
    messages,           \* what the run logged or passed to message_callback
    progress,           \* the percentages passed to progress_callback, in order
    opaque_seen,        \* <<stage, alpha, verdict>> for every alpha a stage classified
    modes_used,         \* <<stage, value of use_lab the stage read>>
    remove_bg_failure,  \* what goes wrong inside remove_background, "none" when nothing does
    remove_bg_out,      \* how the call of remove_background ended
    img_array,          \* the working buffer of an error-diffusion method (lines 1122, 1152)
    scan_k,             \* the number of pixels of the scan the loop has been through
    quantized,          \* per pixel the loop has quantized, the RGB it was given then
    buffer_log,         \* the error the latest step added: <<pixel, channel, numerator, denominator>>
    color_checkboxes,   \* MainWindow: per colour number, the Enable checkbox
    rgb_checkboxes,     \* MainWindow: per colour number, the RGB checkbox
    blank_checkboxes,   \* MainWindow: per colour number, the Blank checkbox
    current_boost_color, \* MainWindow.current_boost_color (line 3790)
    current_blank_color  \* MainWindow.current_blank_color (line 3791)

vars == <<pc, use_lab, color_key_array, img, scalar_out, batched_out,
          preview_png, stamp_txt, frames_txt, frames_in, durations, delays,
          frame_files,
          total_frames, uniform_delay, Frame1Array, first_frame_pixels,
          frame_number, header_frame_number,
          process_mode, process_params, rng_state, calls,
          source, use_lab_flag, preprocess_flag, fault,
          errors, messages, progress, opaque_seen, modes_used,
          remove_bg_failure, remove_bg_out,
          img_array, scan_k, quantized, buffer_log,
          color_checkboxes, rgb_checkboxes, blank_checkboxes,
          current_boost_color, current_blank_color>>

bgVars == <<remove_bg_failure, remove_bg_out>>
diffuseVars == <<img_array, scan_k, quantized, buffer_log>>
uiVars == <<color_checkboxes, rgb_checkboxes, blank_checkboxes,
            current_boost_color, current_blank_color>>
moreVars == <<bgVars, diffuseVars, uiVars>>

ditherVars == <<process_mode, process_params, rng_state, calls>>

runIn == <<source, use_lab_flag, preprocess_flag, fault>>
runOut == <<errors, messages, progress, opaque_seen, modes_used>>
runVars == <<runIn, runOut>>

matchVars == <<scalar_out, batched_out>>
staticVars == <<preview_png>>
gifVars == <<frames_txt, frames_in, durations, delays, frame_files, total_frames,
             uniform_delay, Frame1Array, first_frame_pixels, frame_number,
             header_frame_number>>

\* an output not produced yet; a produced value v is held as <<v>>
None == <<>>

\* a text file with no header line and no point lines
EmptyFile == [header |-> <<>>, points |-> <<>>]

----------------------------------------------------------------------------
(* Bounds and input samples *)

MaxPal == 2          \* longest palette
MaxW == 2            \* widest still image
MaxH == 2            \* tallest still image
MaxFrames == 3       \* most frames of an animation

\* number fields a palette entry may carry: the default numbers and the two
\* reserved codes written by MainWindow.process_image (5 = RGB, -1 = blank)
PaletteNumbers == {-1, 0, 5}

Black == <<0, 0, 0>>
DarkRed == <<51, 0, 0>>
Red == <<102, 0, 0>>
White == <<255, 255, 255>>
\* colours of palette entries; DarkRed lies halfway between Black and Red
PaletteColors == {Black, Red, White}

Entries == [number : PaletteNumbers, rgb : PaletteColors]

RECURSIVE SeqsUpTo(_, _)
SeqsUpTo(S, n) ==
    IF n = 0 THEN {<<>>}
    ELSE LET shorter == SeqsUpTo(S, n - 1)
         IN  shorter \cup {Append(s, e) : s \in {t \in shorter : Len(t) = n - 1}, e \in S}

DistinctNumbers(arr) ==
    \A i, j \in 1..Len(arr) : i # j => arr[i].number # arr[j].number

\* non-empty palettes whose entries carry pairwise distinct numbers, in any order
Palettes == {arr \in SeqsUpTo(Entries, MaxPal) : Len(arr) >= 1 /\ DistinctNumbers(arr)}

Coords(w, h) == {<<x, y>> : x \in 0..(w - 1), y \in 0..(h - 1)}

Images(w, h, samples) == {[w |-> w, h |-> h, px |-> f] : f \in [Coords(w, h) -> samples]}

----------------------------------------------------------------------------
(* Palette model and colour matcher *)

\* round(n * 0.1, 1) as Python prints it: units, then one decimal
Scaled(n) == <<n \div 10, n % 10>>

\* the dict color_key: keys in insertion order, and the value of each key
\* (a repeated number keeps its first position and takes the last value)
RECURSIVE build_color_key(_)
build_color_key(arr) ==
    IF Len(arr) = 0 THEN [nums |-> <<>>, rgb |-> <<>>]
    ELSE LET head == build_color_key(SubSeq(arr, 1, Len(arr) - 1))
             item == arr[Len(arr)]
             seen == \E i \in 1..Len(head.nums) : head.nums[i] = item.number
         IN  [nums |-> IF seen THEN head.nums ELSE Append(head.nums, item.number),
              rgb  |-> [i \in 1..(IF seen THEN Len(head.nums) ELSE Len(head.nums) + 1) |->
                          IF i <= Len(head.nums) /\ head.nums[i] # item.number
                          THEN head.rgb[i] ELSE item.rgb]]

\* color_key[num]
KeyRgb(color_key, num) ==
    color_key.rgb[CHOOSE i \in 1..Len(color_key.nums) : color_key.nums[i] = num]

\* sRGB channel to linear light, times 1000 (the table OpenCV applies before
\* the XYZ matrix): the table at every 51st channel value, a straight line
\* between two table entries
SrgbToLinear(c) ==
    LET T(v) == CASE v = 0 -> 0
                  [] v = 51 -> 33
                  [] v = 102 -> 133
                  [] v = 153 -> 319
                  [] v = 204 -> 604
                  [] v = 255 -> 1000
        lo == (c \div 51) * 51
    IN  IF c = lo THEN T(lo)
        ELSE T(lo) + ((T(lo + 51) - T(lo)) * (c - lo)) \div 51

RECURSIVE CubeRootSearch(_, _, _)
CubeRootSearch(n, lo, hi) ==
    IF lo >= hi THEN lo
    ELSE LET mid == (lo + hi + 1) \div 2
         IN  IF mid * mid * mid <= n THEN CubeRootSearch(n, mid, hi)
             ELSE CubeRootSearch(n, lo, mid - 1)

\* f(t) of CIE LAB, argument times 10^6, result times 1000
LabF(t) ==
    IF t > 8856 THEN CubeRootSearch(t * 1000, 0, 1000)
    ELSE (7787 * t) \div 1000000 + 138

\* cv2.cvtColor(.., COLOR_RGB2LAB) on one 8-bit pixel: D65 matrix, cube root,
\* L scaled to 0..255, a and b offset by 128 (fixed-point arithmetic)
rgb_to_lab_single(rgb) ==
    LET r == SrgbToLinear(rgb[1])
        g == SrgbToLinear(rgb[2])
        b == SrgbToLinear(rgb[3])
        X == ((412 * r + 358 * g + 180 * b) * 1000) \div 950
        Y == 213 * r + 715 * g + 72 * b
        Z == ((19 * r + 119 * g + 950 * b) * 1000) \div 1088
        fx == LabF(X)
        fy == LabF(Y)
        fz == LabF(Z)
        L == IF Y > 8856 THEN (116 * fy - 16000) \div 10 ELSE (9033 * Y) \div 100000
        clip(v) == IF v < 0 THEN 0 ELSE IF v > 255 THEN 255 ELSE v
    IN  <<clip((L * 255) \div 10000),
          clip((500 * (fx - fy)) \div 1000 + 128),
          clip((200 * (fy - fz)) \div 1000 + 128)>>

\* rgb_palette_to_lab: the palette values converted entry by entry
rgb_palette_to_lab(color_key) ==
    [i \in 1..Len(color_key.nums) |-> rgb_to_lab_single(color_key.rgb[i])]

\* np.sum(diff**2) over the three channels
DistSq(p, q) ==
    (p[1] - q[1]) * (p[1] - q[1]) + (p[2] - q[2]) * (p[2] - q[2])
      + (p[3] - q[3]) * (p[3] - q[3])

\* variant of ArgMin: the last position of the least value
ArgMinLast(dist) ==
    CHOOSE i \in 1..Len(dist) :
        /\ \A j \in 1..Len(dist) : dist[i] <= dist[j]
        /\ \A j \in 1..Len(dist) : j > i => dist[j] > dist[i]

\* np.argmin: the first position of the least value
ArgMin(dist) ==
    CHOOSE i \in 1..Len(dist) :
        /\ \A j \in 1..Len(dist) : dist[i] <= dist[j]
        /\ \A j \in 1..Len(dist) : j < i => dist[j] > dist[i]

\* the position find_closest_color picks for one pixel, in the space use_lab selects
ClosestIndex(pixel, color_key) ==
    IF use_lab
    THEN LET pixel_lab == rgb_to_lab_single(pixel)
             color_values_lab == rgb_palette_to_lab(color_key)
         IN  ArgMin([i \in 1..Len(color_key.nums) |-> DistSq(color_values_lab[i], pixel_lab)])
    ELSE ArgMin([i \in 1..Len(color_key.nums) |-> DistSq(color_key.rgb[i], pixel)])

find_closest_color(pixel, color_key) ==
    color_key.nums[ClosestIndex(pixel, color_key)]

\* variant of find_closest_colors_image: ties go to the last palette position
find_closest_colors_image_last(image_array, color_key) ==
    [w  |-> image_array.w,
     h  |-> image_array.h,
     px |-> [c \in Coords(image_array.w, image_array.h) |->
               <<color_key.rgb[ArgMinLast(
                    [i \in 1..Len(color_key.nums) |->
                       IF use_lab
                       THEN DistSq(rgb_palette_to_lab(color_key)[i],
                                   rgb_to_lab_single(image_array.px[c][1]))
                       ELSE DistSq(color_key.rgb[i], image_array.px[c][1])])],
                 image_array.px[c][2]>>]]

\* the N x M distance table, its row-wise argmin, the palette RGB at that
\* position, and the alpha channel stacked back
find_closest_colors_image(image_array, color_key) ==
    LET cs        == Coords(image_array.w, image_array.h)
        M         == Len(color_key.nums)
        lab_vals  == rgb_palette_to_lab(color_key)
        dist_sq   == [c \in cs |-> [i \in 1..M |->
                        IF use_lab
                        THEN DistSq(rgb_to_lab_single(image_array.px[c][1]), lab_vals[i])
                        ELSE DistSq(image_array.px[c][1], color_key.rgb[i])]]
        closest_indices == [c \in cs |-> ArgMin(dist_sq[c])]
    IN  [w  |-> image_array.w,
         h  |-> image_array.h,
         px |-> [c \in cs |-> <<color_key.rgb[closest_indices[c]], image_array.px[c][2]>>]]

----------------------------------------------------------------------------
(* The matcher called on the pixels of an image *)

\* pixels of the matcher's input
MatchPixels == {<<DarkRed, 255>>, <<White, 255>>, <<Red, 0>>}

MatchImages == Images(2, 1, MatchPixels)

IdleMatch == scalar_out = None /\ batched_out = None

IdleBg == remove_bg_failure = "none" /\ remove_bg_out = None

IdleDiffuse == img_array = None /\ scan_k = 0 /\ quantized = None /\ buffer_log = {}

IdleUi ==
    /\ color_checkboxes = None /\ rgb_checkboxes = None /\ blank_checkboxes = None
    /\ current_boost_color = None /\ current_blank_color = None

IdleStatic == preview_png = None

IdleDither ==
    /\ process_mode = "Color Match" /\ process_params = [strength |-> <<1, 1>>, seed |-> 0]
    /\ rng_state = 0 /\ calls = <<>>

\* no failure inflicted
NoFault == [tone |-> "none", frame |-> 1, pixels |-> {}]

IdleRun ==
    /\ source = <<>> /\ use_lab_flag = FALSE /\ preprocess_flag = FALSE
    /\ fault = NoFault
    /\ errors = <<>> /\ messages = {} /\ progress = <<>>
    /\ opaque_seen = {} /\ modes_used = {}

IdleGif ==
    /\ frames_txt = <<>>
    /\ frames_in = <<>> /\ durations = <<>> /\ delays = <<>> /\ frame_files = <<>>
    /\ total_frames = 0 /\ uniform_delay = 0
    /\ Frame1Array = <<>> /\ first_frame_pixels = <<>>
    /\ frame_number = 0 /\ header_frame_number = 0

InitMatch ==
    /\ pc = "match"
    /\ use_lab \in BOOLEAN
    /\ color_key_array \in Palettes
    /\ img \in MatchImages
    /\ IdleBg /\ IdleDiffuse /\ IdleUi
    /\ IdleMatch /\ IdleStatic /\ IdleGif /\ IdleDither /\ IdleRun
    /\ stamp_txt = EmptyFile

\* find_closest_color(pixel, color_key) on the RGB of the pixel at c
CallFindClosestColor(c) ==
    /\ pc = "match"
    /\ scalar_out' = <<c, find_closest_color(img.px[c][1], build_color_key(color_key_array))>>
    /\ UNCHANGED <<moreVars, pc, use_lab, color_key_array, img, batched_out, staticVars,
                   stamp_txt, gifVars,
                   ditherVars, runVars>>

\* find_closest_colors_image(image_array, color_key) on the whole image
CallFindClosestColorsImage ==
    /\ pc = "match"
    /\ batched_out' = <<find_closest_colors_image(img, build_color_key(color_key_array))>>
    /\ UNCHANGED <<moreVars, pc, use_lab, color_key_array, img, scalar_out, staticVars,
                   stamp_txt, gifVars,
                   ditherVars, runVars>>

NextMatch ==
    \/ \E c \in Coords(img.w, img.h) : CallFindClosestColor(c)
    \/ CallFindClosestColorsImage

SpecMatch == InitMatch /\ [][NextMatch]_vars

----------------------------------------------------------------------------
(* Claims about the matcher *)

\* the positions of the palette at the least squared RGB distance from pixel
NearestRgb(pixel, arr) ==
    {i \in 1..Len(arr) :
        \A j \in 1..Len(arr) : DistSq(arr[i].rgb, pixel) <= DistSq(arr[j].rgb, pixel)}

\* C1 as stated: in RGB mode find_closest_color returns the number of an entry
\* at the least squared RGB distance, and among several such entries the one
\* with the lowest number.
C1_LowestNumberOnTie ==
    (scalar_out # None /\ ~use_lab) =>
        LET near == NearestRgb(img.px[scalar_out[1]][1], color_key_array)
        IN  /\ \E i \in near : color_key_array[i].number = scalar_out[2]
            /\ \A i \in near : color_key_array[i].number >= scalar_out[2]

\* C1 amended: in RGB mode find_closest_color returns the number of an entry
\* at the least squared RGB distance, and among several such entries the one
\* that comes first in the palette's definition order.
C1_FirstInPaletteOrderOnTie ==
    (scalar_out # None /\ ~use_lab) =>
        LET near == NearestRgb(img.px[scalar_out[1]][1], color_key_array)
        IN  \E i \in near :
               /\ color_key_array[i].number = scalar_out[2]
               /\ \A j \in near : j >= i

\* C1 witness: RGB mode, two entries of different colours tie for the least
\* distance, the later one has the lower number, and the call has returned.
C1_Witness ==
    /\ scalar_out # None /\ ~use_lab
    /\ LET near == NearestRgb(img.px[scalar_out[1]][1], color_key_array)
       IN  \E i, j \in near :
              /\ i < j
              /\ color_key_array[i].rgb # color_key_array[j].rgb
              /\ color_key_array[j].number < color_key_array[i].number

\* C2: in either colour space, the RGB the batched matcher writes at a pixel is
\* the palette RGB of the number the scalar matcher returns for that pixel, and
\* the batched result keeps the input alpha at every pixel.
C2_BatchedEqualsScalar ==
    (scalar_out # None /\ batched_out # None) =>
        /\ batched_out[1].px[scalar_out[1]][1]
             = KeyRgb(build_color_key(color_key_array), scalar_out[2])
        /\ \A c \in Coords(img.w, img.h) : batched_out[1].px[c][2] = img.px[c][2]
        /\ batched_out[1].w = img.w /\ batched_out[1].h = img.h

\* C2 witness: LAB mode, a palette of two different colours, both matchers
\* have run and the pixel compared is opaque.
C2_Witness ==
    /\ scalar_out # None /\ batched_out # None /\ use_lab
    /\ Len(color_key_array) >= 2
    /\ color_key_array[1].rgb # color_key_array[2].rgb
    /\ scalar_out[2] = color_key_array[2].number
    /\ img.px[scalar_out[1]][2] = 255

----------------------------------------------------------------------------
(* Static encoder: process_and_save_image from the preview step on *)

\* the palettes the encoders are run with
EncoderPalettes ==
    { <<[number |-> 0, rgb |-> White], [number |-> 1, rgb |-> Black]>>,
      <<[number |-> 5, rgb |-> Black], [number |-> -1, rgb |-> White]>> }

\* pixels of a still image: opaque, just above and just at the alpha limit
StaticPixels == {<<Black, 255>>, <<White, 192>>, <<White, 191>>}

StaticImages ==
    UNION {Images(w, h, StaticPixels) : w \in 1..MaxW, h \in 1..MaxH}

\* the transparency filter of the preview: alpha <= 191 becomes (0, 0, 0, 0)
FilterTransparent(image) ==
    [image EXCEPT !.px = [c \in DOMAIN image.px |->
        IF image.px[c][2] <= 191 THEN <<Black, 0>> ELSE image.px[c]]]

\* alpha.getbbox(): <<left, upper, right, lower>> of the pixels whose alpha is
\* not zero, or <<>> when there is none
GetBBox(image) ==
    LET solid == {c \in DOMAIN image.px : image.px[c][2] # 0}
        xs == {c[1] : c \in solid}
        ys == {c[2] : c \in solid}
        Min(S) == CHOOSE m \in S : \A n \in S : m <= n
        Max(S) == CHOOSE m \in S : \A n \in S : m >= n
    IN  IF solid = {} THEN <<>>
        ELSE <<Min(xs), Min(ys), Max(xs) + 1, Max(ys) + 1>>

crop_to_solid_area(image) ==
    LET bbox == GetBBox(image)
    IN  IF bbox # <<>>
        THEN [w  |-> bbox[3] - bbox[1],
              h  |-> bbox[4] - bbox[2],
              px |-> [c \in Coords(bbox[3] - bbox[1], bbox[4] - bbox[2]) |->
                        image.px[<<c[1] + bbox[1], c[2] + bbox[2]>>]]]
        ELSE [w |-> 1, h |-> 1, px |-> [c \in Coords(1, 1) |-> <<Black, 0>>]]

\* for y in range(height - 1, -1, -1): for x in range(width)
ScanBottomUp(w, h) ==
    [k \in 1..(w * h) |-> <<(k - 1) % w, h - 1 - ((k - 1) \div w)>>]

\* the point lines of a still image: pixels with alpha <= 191 skipped, the
\* others written as x*0.1, (height-1-y)*0.1, number
StaticPoints(image, color_key) ==
    LET Opaque(c) == image.px[c][2] > 191
        kept == SelectSeq(ScanBottomUp(image.w, image.h), Opaque)
    IN  [k \in 1..Len(kept) |->
            <<Scaled(kept[k][1]), Scaled(image.h - 1 - kept[k][2]),
              find_closest_color(image.px[kept[k]][1], color_key)>>]

InitStatic ==
    /\ pc = "static"
    /\ use_lab \in BOOLEAN
    /\ color_key_array \in EncoderPalettes
    /\ img \in StaticImages
    /\ IdleBg /\ IdleDiffuse /\ IdleUi
    /\ IdleMatch /\ IdleStatic /\ IdleGif /\ IdleDither /\ IdleRun
    /\ stamp_txt = EmptyFile

\* lines 1268-1287: filter for the preview, crop, save preview.png
StaticPreview ==
    /\ pc = "static"
    /\ preview_png' = <<crop_to_solid_area(FilterTransparent(img))>>
    /\ pc' = "static_preview"
    /\ UNCHANGED <<moreVars, use_lab, color_key_array, img, matchVars, stamp_txt, gifVars,
                   ditherVars, runVars>>

\* lines 1289-1302: stamp.txt opened for writing, the header line written
StaticWriteHeader ==
    /\ pc = "static_preview"
    /\ stamp_txt' = [header |-> <<<<Scaled(preview_png[1].w), Scaled(preview_png[1].h), "img">>>>,
                     points |-> <<>>]
    /\ pc' = "static_header"
    /\ UNCHANGED <<moreVars, use_lab, color_key_array, img, matchVars, staticVars, gifVars,
                   ditherVars, runVars>>

\* lines 1304-1335: the pixel loop
StaticWritePoints ==
    /\ pc = "static_header"
    /\ stamp_txt' = [stamp_txt EXCEPT
          !.points = StaticPoints(preview_png[1], build_color_key(color_key_array))]
    /\ pc' = "static_points"
    /\ UNCHANGED <<moreVars, use_lab, color_key_array, img, matchVars, staticVars, gifVars,
                   ditherVars, runVars>>

\* lines 1337-1338: the file is closed, "Processing complete!"
StaticComplete ==
    /\ pc = "static_points"
    /\ pc' = "static_done"
    /\ UNCHANGED <<moreVars, use_lab, color_key_array, img, matchVars, staticVars, stamp_txt, gifVars,
                   ditherVars, runVars>>

NextStatic ==
    \/ StaticPreview
    \/ StaticWriteHeader
    \/ StaticWritePoints
    \/ StaticComplete

SpecStatic == InitStatic /\ [][NextStatic]_vars

----------------------------------------------------------------------------
(* Claims about the static encoder *)

\* the pixels of image with alpha > 191, rows from the last to the first, left
\* to right within a row, each as <<x*0.1, (H-1-y)*0.1, nearest number>>
PointStreamOf(image) ==
    LET key == build_color_key(color_key_array)
        At(k) == <<(k - 1) % image.w, image.h - 1 - ((k - 1) \div image.w)>>
        RECURSIVE Upto(_)
        Upto(k) ==
            IF k = 0 THEN <<>>
            ELSE IF image.px[At(k)][2] > 191
                 THEN Append(Upto(k - 1),
                             <<Scaled(At(k)[1]), Scaled(image.h - 1 - At(k)[2]),
                               find_closest_color(image.px[At(k)][1], key)>>)
                 ELSE Upto(k - 1)
    IN  Upto(image.w * image.h)

\* C3 as stated: the lines after the header of stamp.txt are, in bottom-to-top,
\* left-to-right order, one line (x*0.1, (H-1-y)*0.1, number) per pixel (x, y)
\* of the post-dither image with alpha > 191, W and H being its width and height.
C3_PointStreamOfPostDitherImage ==
    pc = "static_done" => stamp_txt.points = PointStreamOf(img)

\* C4 as stated: the header carries the post-dither image's width and height
\* times 0.1 with kind img, and every point is measured from that image's
\* own origin (no column or row is removed or shifted).
C4_HeaderAndOriginOfPostDitherImage ==
    pc = "static_done" =>
        /\ stamp_txt.header = <<<<Scaled(img.w), Scaled(img.h), "img">>>>
        /\ \A k \in 1..Len(stamp_txt.points) :
              \E c \in Coords(img.w, img.h) :
                 /\ img.px[c][2] > 191
                 /\ stamp_txt.points[k][1] = Scaled(c[1])
                 /\ stamp_txt.points[k][2] = Scaled(img.h - 1 - c[2])
                 /\ stamp_txt.points[k][3]
                      = find_closest_color(img.px[c][1], build_color_key(color_key_array))

----------------------------------------------------------------------------
(* Animation encoder: process_and_save_gif and save_frames *)

\* width and height of the frames of an animation
GifSizes == {<<2, 1>>, <<1, 2>>}

\* pixels of a processed frame: two opaque colours, one below save_frames' limit
GifPixels == {<<Black, 255>>, <<White, 255>>, <<White, 203>>}

\* img.info['duration'] of a frame: absent, 40 ms or 70 ms
DurationSamples == {<<>>, <<40>>, <<70>>}

\* img.info.get('duration', 100)
GetDuration(info) == IF info = <<>> THEN 100 ELSE info[1]

\* variant of UniformDelay: the first delay, whatever the others are
UniformDelayOfFirst(ds) == ds[1]

\* delays[0] if all(d == delays[0] for d in delays) else -1
UniformDelay(ds) ==
    IF \A k \in 1..Len(ds) : ds[k] = ds[1] THEN ds[1] ELSE -1

\* save_frames, lines 1624-1636: alpha below 204 becomes (0, 0, 0, 0), the
\* frame is saved as frame_<k>.png
SavedFrame(frame) ==
    [frame EXCEPT !.px = [c \in DOMAIN frame.px |->
        IF frame.px[c][2] < 204 THEN <<Black, 0>> ELSE frame.px[c]]]

\* dict.get(key, -1)
Get(map, c) == IF c \in DOMAIN map THEN map[c] ELSE -1

\* for y in range(height): for x in range(width)
ScanTopDown(w, h) ==
    [k \in 1..(w * h) |-> <<(k - 1) % w, (k - 1) \div w>>]

\* variant of GifLine: Y flipped as in the static encoder
GifLineFlipped(x, y, n) == <<Scaled(x), Scaled(frame_files[1].h - 1 - y), n>>

\* a line of the baseline or of a delta block: x*0.1, y*0.1, number
GifLine(x, y, n) == <<Scaled(x), Scaled(y), n>>

\* the first frame's pixels with alpha > 191, matched to the palette
FirstFrameMap(frame, color_key) ==
    [c \in {d \in DOMAIN frame.px : frame.px[d][2] > 191} |->
        find_closest_color(frame.px[c][1], color_key)]

\* the lines of stamp.txt for the first frame, in scan order
FirstFramePoints(frame, color_key) ==
    LET Opaque(c) == frame.px[c][2] > 191
        kept == SelectSeq(ScanTopDown(frame.w, frame.h), Opaque)
    IN  [k \in 1..Len(kept) |->
            GifLine(kept[k][1], kept[k][2], find_closest_color(frame.px[kept[k]][1], color_key))]

\* current_frame_pixels: every coordinate, -1 where alpha <= 191
CurrentFramePixels(frame, w, h, color_key) ==
    [c \in Coords(w, h) |->
        IF frame.px[c][2] <= 191 THEN -1
        ELSE find_closest_color(frame.px[c][1], color_key)]

\* variant of Diffs: the diff taken against the first frame's map
DiffsAgainstFirst(prev, cur) ==
    {<<c[1], c[2], Get(cur, c)>> :
        c \in {d \in DOMAIN first_frame_pixels \cup DOMAIN cur :
                  Get(cur, d) # Get(first_frame_pixels, d)}}

\* lines 1483-1495: the coordinates of either map whose number differs, with
\* the current number (-1 for a pixel that became transparent)
Diffs(prev, cur) ==
    {<<c[1], c[2], Get(cur, c)>> :
        c \in {d \in DOMAIN prev \cup DOMAIN cur : Get(cur, d) # Get(prev, d)}}

\* lines 1522-1538: the closing diff of the last frame against the first
ClosingDiffs(first, last) ==
    {<<c[1], c[2],
       IF Get(first, c) = -1 THEN Get(first, c)
       ELSE IF Get(last, c) = -1 THEN -1
       ELSE Get(first, c)>> :
        c \in {d \in DOMAIN first \cup DOMAIN last : Get(first, d) # Get(last, d)}}

\* variant of FrameDelay: the list indexed one frame too early
FrameDelayOfPrevious(ds, k) == ds[k - 1]

\* delays[frame_number - 1], the list being 0-based in the code
FrameDelay(ds, k) == ds[k]

\* a block of frames.txt: the header frame,<index>[,<delay>] and its lines
\* (written in the iteration order of a Python set, which is left open)
Block(index, delay, diffs) ==
    [index |-> index,
     delay |-> IF uniform_delay = -1 THEN <<delay>> ELSE <<>>,
     lines |-> {GifLine(d[1], d[2], d[3]) : d \in diffs}]

\* variant of NextHeaderNumber: the header number left as it is
SameHeaderNumber(n) == n

\* header_frame_number += 1
NextHeaderNumber(n) == n + 1

\* the state process_and_save_gif starts in, for an animation of the given
\* frame sizes and per-frame duration fields
GifStart(sizes, durs) ==
    /\ pc = "gif"
    /\ use_lab = FALSE
    /\ color_key_array \in EncoderPalettes
    /\ \E n \in 2..MaxFrames, size \in sizes :
          /\ frames_in \in [1..n -> Images(size[1], size[2], GifPixels)]
          /\ durations \in {d \in [1..n -> DurationSamples] : d \in durs}
    /\ img = frames_in[1]
    /\ IdleBg /\ IdleDiffuse /\ IdleUi
    /\ IdleMatch /\ IdleStatic /\ IdleDither /\ IdleRun
    /\ stamp_txt = EmptyFile
    /\ frames_txt = <<>>
    /\ delays = <<>> /\ frame_files = <<>>
    /\ total_frames = 0 /\ uniform_delay = 0
    /\ Frame1Array = <<>> /\ first_frame_pixels = <<>>
    /\ frame_number = 0 /\ header_frame_number = 0

\* no frame carries a duration field
NoDurations == {[k \in 1..n |-> <<>>] : n \in 2..MaxFrames}

AnyDurations == UNION {[1..n -> DurationSamples] : n \in 2..MaxFrames}

\* animations of two-pixel frames without duration fields
InitGif == GifStart(GifSizes, NoDurations)

\* animations of one-pixel frames with any duration fields
InitGifDelays == GifStart({<<1, 1>>}, AnyDurations)

\* lines 1351-1380: frames.txt cleared, the delays gathered, uniform_delay set
GifOpen ==
    /\ pc = "gif"
    /\ frames_txt' = <<>>
    /\ total_frames' = Len(frames_in)
    /\ delays' = [k \in 1..Len(frames_in) |-> GetDuration(durations[k])]
    /\ uniform_delay' = UniformDelay(delays')
    /\ pc' = "gif_open"
    /\ UNCHANGED <<moreVars, use_lab, color_key_array, img, matchVars, staticVars, stamp_txt,
                   frames_in, durations, frame_files, Frame1Array,
                   first_frame_pixels, frame_number, header_frame_number,
                   ditherVars, runVars>>

\* line 1383, save_frames: every processed frame thresholded and saved
SaveFrames ==
    /\ pc = "gif_open"
    /\ frame_files' = [k \in 1..total_frames |-> SavedFrame(frames_in[k])]
    /\ pc' = "gif_saved"
    /\ UNCHANGED <<moreVars, use_lab, color_key_array, img, matchVars, staticVars, stamp_txt,
                   frames_txt, frames_in, durations, delays, total_frames,
                   uniform_delay, Frame1Array, first_frame_pixels, frame_number,
                   header_frame_number,
                   ditherVars, runVars>>

\* lines 1399-1449: the header and the first frame written to stamp.txt, the
\* first frame's map kept in Frame1Array and first_frame_pixels
GifFirstFrame ==
    /\ pc = "gif_saved"
    /\ LET first_frame == frame_files[1]
           color_key == build_color_key(color_key_array)
       IN  /\ stamp_txt' =
                [header |-> <<<<Scaled(first_frame.w), Scaled(first_frame.h), "gif",
                                total_frames, uniform_delay>>>>,
                 points |-> FirstFramePoints(first_frame, color_key)]
           /\ Frame1Array' = FirstFrameMap(first_frame, color_key)
           /\ first_frame_pixels' = FirstFrameMap(first_frame, color_key)
    /\ header_frame_number' = 1
    /\ frame_number' = 2
    /\ pc' = "gif_frames"
    /\ UNCHANGED <<moreVars, use_lab, color_key_array, img, matchVars, staticVars, frames_txt,
                   frames_in, durations, delays, frame_files, total_frames,
                   uniform_delay,
                   ditherVars, runVars>>

\* lines 1451-1518, one pass of the loop: the frame's map, its diff against
\* Frame1Array appended to frames.txt, Frame1Array replaced by the frame's map
GifNextFrame ==
    /\ pc = "gif_frames"
    /\ frame_number <= total_frames
    /\ LET frame == frame_files[frame_number]
           current_frame_pixels ==
               CurrentFramePixels(frame, frame_files[1].w, frame_files[1].h,
                                  build_color_key(color_key_array))
       IN  /\ frames_txt' = Append(frames_txt,
                                   Block(header_frame_number,
                                         FrameDelay(delays, frame_number),
                                         Diffs(Frame1Array, current_frame_pixels)))
           /\ Frame1Array' = current_frame_pixels
    /\ header_frame_number' = NextHeaderNumber(header_frame_number)
    /\ frame_number' = frame_number + 1
    /\ UNCHANGED <<moreVars, pc, use_lab, color_key_array, img, matchVars, staticVars, stamp_txt,
                   frames_in, durations, delays, frame_files, total_frames,
                   uniform_delay, first_frame_pixels,
                   ditherVars, runVars>>

\* lines 1520-1556: the closing diff appended with the next header number
GifCloseLoop ==
    /\ pc = "gif_frames"
    /\ frame_number > total_frames
    /\ frames_txt' = Append(frames_txt,
                            Block(header_frame_number, delays[1],
                                  ClosingDiffs(first_frame_pixels, Frame1Array)))
    /\ pc' = "gif_done"
    /\ UNCHANGED <<moreVars, use_lab, color_key_array, img, matchVars, staticVars, stamp_txt,
                   frames_in, durations, delays, frame_files, total_frames,
                   uniform_delay, Frame1Array, first_frame_pixels, frame_number,
                   header_frame_number,
                   ditherVars, runVars>>

NextGif ==
    \/ GifOpen
    \/ SaveFrames
    \/ GifFirstFrame
    \/ GifNextFrame
    \/ GifCloseLoop

SpecGif == InitGif /\ [][NextGif]_vars

SpecGifDelays == InitGifDelays /\ [][NextGif]_vars

----------------------------------------------------------------------------
(* Claims about the animation encoder.  Frame k is the saved file           *)
(* frame_<k>.png the encoder reads; the state of a pixel is its palette     *)
(* number, or -1 when its alpha is <= 191, as in the file format.           *)

FrameCoords == Coords(frame_files[1].w, frame_files[1].h)

StateOf(k, c) ==
    IF frame_files[k].px[c][2] > 191
    THEN find_closest_color(frame_files[k].px[c][1], build_color_key(color_key_array))
    ELSE -1

Changed(j, k) == {c \in FrameCoords : StateOf(j, c) # StateOf(k, c)}

\* C5: the block written for frame k >= 2 (the (k-1)-th block) holds a line
\* for (x, y) exactly when the state of (x, y) differs between frame k-1 and
\* frame k, the line carrying frame k's state; equal frames give no line and
\* frames differing in one pixel give one line.
C5_DeltaAgainstPrecedingFrame ==
    \A i \in 1..Len(frames_txt) :
        i < total_frames =>
            /\ frames_txt[i].lines =
                  {<<Scaled(c[1]), Scaled(c[2]), StateOf(i + 1, c)>> : c \in Changed(i, i + 1)}
            /\ Cardinality(frames_txt[i].lines) = Cardinality(Changed(i, i + 1))

\* C5 witness: frame 3 is frame 1 again and differs from frame 2, and its
\* block has been written with a line in it.
C5_Witness ==
    /\ Len(frames_txt) >= 2
    /\ Len(frame_files) >= 3
    /\ Changed(1, 3) = {}
    /\ Changed(2, 3) # {}
    /\ frames_txt[2].lines # {}

ScaledCoords == {<<Scaled(c[1]), Scaled(c[2])>> : c \in FrameCoords}

\* a delta block applied to a pixel state: a line sets its pixel, to -1 when
\* it removes it
ApplyBlock(state, lines) ==
    [sc \in ScaledCoords |->
        IF \E l \in lines : <<l[1], l[2]>> = sc
        THEN (CHOOSE l \in lines : <<l[1], l[2]>> = sc)[3]
        ELSE state[sc]]

\* the baseline of stamp.txt as a pixel state
BaselineState ==
    [sc \in ScaledCoords |->
        IF \E k \in 1..Len(stamp_txt.points) :
              <<stamp_txt.points[k][1], stamp_txt.points[k][2]>> = sc
        THEN stamp_txt.points[CHOOSE k \in 1..Len(stamp_txt.points) :
                 <<stamp_txt.points[k][1], stamp_txt.points[k][2]>> = sc][3]
        ELSE -1]

RECURSIVE ReplayUpTo(_)
ReplayUpTo(i) ==
    IF i = 0 THEN BaselineState
    ELSE ApplyBlock(ReplayUpTo(i - 1), frames_txt[i].lines)

FrameState(k) ==
    [sc \in ScaledCoords |->
        StateOf(k, CHOOSE c \in FrameCoords : <<Scaled(c[1]), Scaled(c[2])>> = sc)]

\* C6 as stated: replaying the delta blocks of frames.txt from the baseline
\* of stamp.txt gives frame k's map after the block for frame k, and the
\* frame-1 map again after the closing block.
C6_LoopClosure ==
    pc = "gif_done" =>
        /\ \A k \in 2..total_frames : ReplayUpTo(k - 1) = FrameState(k)
        /\ ReplayUpTo(Len(frames_txt)) = FrameState(1)

\* the lines of a frame scanned rows top to bottom, left to right in a row,
\* pixels with alpha <= 191 left out, coordinates x*0.1 and y*0.1
TopDownLines(k) ==
    LET w == frame_files[k].w
        At(n) == <<(n - 1) % w, (n - 1) \div w>>
        RECURSIVE Upto(_)
        Upto(n) ==
            IF n = 0 THEN <<>>
            ELSE IF frame_files[k].px[At(n)][2] > 191
                 THEN Append(Upto(n - 1),
                             <<Scaled(At(n)[1]), Scaled(At(n)[2]), StateOf(k, At(n))>>)
                 ELSE Upto(n - 1)
    IN  Upto(w * frame_files[k].h)

\* C7: frame 1 is written to stamp.txt in full, rows top to bottom and left to
\* right, one line per pixel with alpha > 191; the map kept as baseline holds
\* exactly the pixels written; the coordinates of the baseline and of every
\* delta line are (x*0.1, y*0.1) of the pixel meant, without a Y flip.
C7_BaselineTopDownUnflipped ==
    pc \in {"gif_frames", "gif_done"} =>
        /\ stamp_txt.points = TopDownLines(1)
        /\ DOMAIN first_frame_pixels = {c \in FrameCoords : frame_files[1].px[c][2] > 191}
        /\ {<<Scaled(c[1]), Scaled(c[2]), first_frame_pixels[c]>> : c \in DOMAIN first_frame_pixels}
              = {stamp_txt.points[k] : k \in 1..Len(stamp_txt.points)}
        /\ \A i \in 1..Len(frames_txt) :
              {<<l[1], l[2]>> : l \in frames_txt[i].lines}
                 = {<<Scaled(c[1]), Scaled(c[2])>> :
                       c \in Changed(i, IF i < total_frames THEN i + 1 ELSE 1)}

\* C7 witness: frames one pixel wide and two high, the first with two opaque
\* pixels of different numbers, and a delta block whose only line is for the
\* lower pixel.
C7_Witness ==
    /\ pc \in {"gif_frames", "gif_done"}
    /\ frame_files[1].h = 2
    /\ Len(stamp_txt.points) = 2
    /\ stamp_txt.points[1][3] # stamp_txt.points[2][3]
    /\ Len(frames_txt) >= 1
    /\ {<<l[1], l[2]>> : l \in frames_txt[1].lines} = {<<Scaled(0), Scaled(1)>>}

\* C8: the blocks of frames.txt are headed frame,1, frame,2, ... without gaps;
\* the block for frame k is the (k-1)-th, and at the end there are as many
\* blocks as frames, the closing one last with the index N.
C8_BlockNumbering ==
    /\ \A i \in 1..Len(frames_txt) : frames_txt[i].index = i
    /\ pc = "gif_frames" => Len(frames_txt) = frame_number - 2
    /\ pc = "gif_done" =>
          /\ Len(frames_txt) = Len(frames_in)
          /\ frames_txt[Len(frames_txt)].index = Len(frames_in)

\* C8 witness: an animation of at least three frames encoded to the end.
C8_Witness ==
    /\ pc = "gif_done"
    /\ Len(frames_in) >= 3
    /\ Len(frames_txt) >= 3

\* the delay of frame k: its duration field, 100 when the file gives none
DelayOf(k) == IF durations[k] = <<>> THEN 100 ELSE durations[k][1]

\* C9: the gif header of stamp.txt carries the number of frames, and the
\* common delay when all frames have the same delay, -1 when two differ.
C9_UniformDelayHeader ==
    stamp_txt.header # <<>> =>
        /\ stamp_txt.header[1][3] = "gif"
        /\ stamp_txt.header[1][4] = Len(frames_in)
        /\ (\A k \in 1..Len(frames_in) : DelayOf(k) = DelayOf(1))
              => stamp_txt.header[1][5] = DelayOf(1)
        /\ (\E j, k \in 1..Len(frames_in) : DelayOf(j) # DelayOf(k))
              => stamp_txt.header[1][5] = -1

\* C9 witness: three frames, the first two with the same delay and the third
\* with another, and the header written.
C9_Witness ==
    /\ stamp_txt.header # <<>>
    /\ Len(frames_in) = 3
    /\ DelayOf(1) = DelayOf(2)
    /\ DelayOf(3) # DelayOf(1)

\* C10: every block header of frames.txt, the closing one included, carries a
\* delay exactly when uniform_delay is -1; the delay on the block for frame k
\* is frame k's delay and the delay on the closing block is frame 1's.
C10_DelaySuffix ==
    \A i \in 1..Len(frames_txt) :
        /\ (frames_txt[i].delay # <<>>) <=> (stamp_txt.header[1][5] = -1)
        /\ frames_txt[i].delay # <<>> =>
              frames_txt[i].delay[1] = DelayOf(IF i < total_frames THEN i + 1 ELSE 1)

\* C10 witness: three frames with three different delays, encoded to the end.
C10_Witness ==
    /\ pc = "gif_done"
    /\ Len(frames_in) = 3
    /\ DelayOf(1) # DelayOf(2) /\ DelayOf(2) # DelayOf(3) /\ DelayOf(1) # DelayOf(3)
    /\ frames_txt[3].delay # <<>>

----------------------------------------------------------------------------
(* Processing methods: process_image and the dithering variants.           *)
(* A diffusion coefficient is <<dx, dy, numerator, denominator>> and a      *)
(* strength is <<numerator, denominator>>; the float products of the code   *)
(* are taken exactly.                                                        *)

atkinson_matrix ==
    << <<1, 0, 1, 8>>, <<2, 0, 1, 8>>,
       <<-1, 1, 1, 8>>, <<0, 1, 1, 8>>, <<1, 1, 1, 8>>,
       <<0, 2, 1, 8>> >>

stucki_matrix ==
    << <<1, 0, 8, 42>>, <<2, 0, 4, 42>>,
       <<-2, 1, 2, 42>>, <<-1, 1, 4, 42>>, <<0, 1, 8, 42>>, <<1, 1, 4, 42>>, <<2, 1, 2, 42>>,
       <<-2, 2, 1, 42>>, <<-1, 2, 2, 42>>, <<0, 2, 4, 42>>, <<1, 2, 2, 42>>, <<2, 2, 1, 42>> >>

\* variant of floyd_steinberg_matrix: the first entry points to the pixel on
\* the left
floyd_steinberg_matrix_back ==
    << <<-1, 0, 7, 16>>, <<-1, 1, 3, 16>>, <<0, 1, 5, 16>>, <<1, 1, 1, 16>> >>

floyd_steinberg_matrix ==
    << <<1, 0, 7, 16>>, <<-1, 1, 3, 16>>, <<0, 1, 5, 16>>, <<1, 1, 1, 16>> >>

jarvis_matrix ==
    << <<1, 0, 7, 48>>, <<2, 0, 5, 48>>,
       <<-2, 1, 3, 48>>, <<-1, 1, 5, 48>>, <<0, 1, 7, 48>>, <<1, 1, 5, 48>>, <<2, 1, 3, 48>>,
       <<-2, 2, 1, 48>>, <<-1, 2, 3, 48>>, <<0, 2, 5, 48>>, <<1, 2, 3, 48>>, <<2, 2, 1, 48>> >>

sierra_matrix ==
    << <<1, 0, 4, 16>>, <<2, 0, 3, 16>>,
       <<-2, 1, 1, 16>>, <<-1, 1, 2, 16>>, <<0, 1, 3, 16>>, <<1, 1, 2, 16>>, <<2, 1, 1, 16>> >>

\* variant of ClampInt without min and max: the sum truncated only
ClampInt_unclipped(num, den) == num \div den

\* int(min(max(num / den, 0), 255)), den > 0
ClampInt(num, den) ==
    IF num <= 0 THEN 0
    ELSE IF num \div den >= 255 THEN 255 ELSE num \div den

\* variant of alpha_mask: every pixel is processed and may receive error
alpha_mask_all(image, c) == TRUE

\* alpha_mask = (alpha_channel > 0), taken from the input before the loop
alpha_mask(image, c) == image.px[c][2] > 0

\* variant of ClosestRgb: the first palette entry whatever the pixel
ClosestRgb_first(pixel_rgb, color_key) == color_key.rgb[1]

\* color_values_rgb[closest_color_func(pixel_rgb)]
ClosestRgb(pixel_rgb, color_key) == color_key.rgb[ClosestIndex(pixel_rgb, color_key)]

\* the one element of a one-element set
TheOne(S) == CHOOSE x \in S : TRUE

\* lines 1176-1183 (768-775), one kernel entry e applied around c: a target
\* outside the image or outside alpha_mask is left alone, another gets the
\* error times the coefficient added to R, G, B, clamped and truncated
SpreadEntry(image, px, c, quant_error, strength, e) ==
    LET n == <<c[1] + e[1], c[2] + e[2]>>
        den == strength[2] * e[4]
    IN  IF n \in DOMAIN px /\ alpha_mask(image, n)
        THEN [px EXCEPT ![n] =
                << [i \in 1..3 |->
                      ClampInt(px[n][1][i] * den + quant_error[i] * strength[1] * e[3], den)],
                   px[n][2] >>]
        ELSE px

\* lines 1174-1183 (766-775): the first k kernel entries applied in turn
RECURSIVE SpreadError(_, _, _, _, _, _, _)
SpreadError(image, px, c, quant_error, strength, matrix, k) ==
    IF k = 0 THEN px
    ELSE TheOne({SpreadEntry(image, before, c, quant_error, strength, matrix[k]) :
                    before \in {SpreadError(image, px, c, quant_error, strength, matrix, k - 1)}})

\* lines 1159-1183 (749-775), the pixel at c processed: it takes the palette
\* RGB nearest to its current RGB (alpha kept) and spreads (old - new) * strength
DiffusePixel(image, px, c, color_key, strength, matrix) ==
    TheOne({SpreadError(image, [px EXCEPT ![c] = <<new_pixel, px[c][2]>>], c,
                        [i \in 1..3 |-> px[c][1][i] - new_pixel[i]], strength,
                        matrix, Len(matrix)) :
               new_pixel \in {ClosestRgb(px[c][1], color_key)}})

\* lines 1154-1157 (744-747): the first k pixels of the scan, a pixel outside
\* alpha_mask skipped
RECURSIVE DiffusionLoop(_, _, _, _, _)
DiffusionLoop(image, color_key, strength, matrices, k) ==
    IF k = 0 THEN image.px
    ELSE LET c == ScanTopDown(image.w, image.h)[k]
         IN  TheOne({IF ~alpha_mask(image, c) THEN px
                     ELSE DiffusePixel(image, px, c, color_key, strength, matrices[c]) :
                        px \in {DiffusionLoop(image, color_key, strength, matrices, k - 1)}})

optimized_error_diffusion_dithering(image, color_key, strength, diffusion_matrix) ==
    [image EXCEPT !.px =
        DiffusionLoop(image, color_key, strength,
                      [c \in DOMAIN image.px |-> diffusion_matrix], image.w * image.h)]

\* img.convert('L') on one pixel: ITU-R 601-2 luma of R, G, B
Luma(rgb) == (rgb[1] * 299 + rgb[2] * 587 + rgb[3] * 114 + 500) \div 1000

\* the blurred edge map of hybrid_dithering at c, 0..255.  FIND_EDGES copies
\* the border pixels of its input, and every pixel of an image at most two
\* wide or high is a border pixel; the Gaussian blur is a 1-2-1 window with
\* the edge pixels repeated.
Saliency(image, c) ==
    LET cl(v, n) == IF v < 0 THEN 0 ELSE IF v > n - 1 THEN n - 1 ELSE v
        wt(d) == IF d = 0 THEN 2 ELSE 1
        term(dx, dy) ==
            wt(dx) * wt(dy) * Luma(image.px[<<cl(c[1] + dx, image.w), cl(c[2] + dy, image.h)>>][1])
    IN  ( term(-1, -1) + term(0, -1) + term(1, -1)
        + term(-1, 0)  + term(0, 0)  + term(1, 0)
        + term(-1, 1)  + term(0, 1)  + term(1, 1) ) \div 16

\* Floyd-Steinberg where saliency > 0.5, Atkinson elsewhere
hybrid_dithering(image, color_key, strength) ==
    [image EXCEPT !.px =
        DiffusionLoop(image, color_key, strength,
                      [c \in DOMAIN image.px |->
                          IF Saliency(image, c) * 2 > 255
                          THEN floyd_steinberg_matrix ELSE atkinson_matrix],
                      image.w * image.h)]

bayer_8x8 ==
    << << 0, 32,  8, 40,  2, 34, 10, 42>>,
       <<48, 16, 56, 24, 50, 18, 58, 26>>,
       <<12, 44,  4, 36, 14, 46,  6, 38>>,
       <<60, 28, 52, 20, 62, 30, 54, 22>>,
       << 3, 35, 11, 43,  1, 33,  9, 41>>,
       <<51, 19, 59, 27, 49, 17, 57, 25>>,
       <<15, 47,  7, 39, 13, 45,  5, 37>>,
       <<63, 31, 55, 23, 61, 29, 53, 21>> >>

\* tiled_bayer[y, x] times 64
TiledBayer(c) == bayer_8x8[(c[2] % 8) + 1][(c[1] % 8) + 1]

\* the channel values the inverse conversion searches over
LabGridChannels == {0, 102, 255}

\* the grid colours with their LAB values
LabGrid ==
    [rgb \in {<<r, g, b>> : r \in LabGridChannels, g \in LabGridChannels,
                            b \in LabGridChannels} |-> rgb_to_lab_single(rgb)]

\* cv2.cvtColor(.., COLOR_LAB2RGB) on one pixel: the inverse of
\* rgb_to_lab_single, taken as the grid colour whose LAB is nearest (the
\* first in R, G, B order among several)
lab_to_rgb_single(lab) ==
    LET d == [rgb \in DOMAIN LabGrid |-> DistSq(LabGrid[rgb], lab)]
        least == CHOOSE m \in {d[rgb] : rgb \in DOMAIN LabGrid} :
                    \A rgb \in DOMAIN LabGrid : m <= d[rgb]
        nearest == {rgb \in DOMAIN LabGrid : d[rgb] = least}
    IN  CHOOSE rgb \in nearest :
            \A other \in nearest :
                \/ rgb[1] < other[1]
                \/ rgb[1] = other[1] /\ rgb[2] < other[2]
                \/ rgb[1] = other[1] /\ rgb[2] = other[2] /\ rgb[3] <= other[3]

\* lines 850-870: the pixel pushed darker or lighter by 0.3 * strength
\* according to the Bayer threshold; R + G + B is a sum of uint8 scalars
PatternAdjusted(rgb, c, strength) ==
    IF use_lab
    THEN LET p_lab == rgb_to_lab_single(rgb)
             den == 10 * strength[2]
             L_adj == IF p_lab[1] * 64 < TiledBayer(c) * 255
                      THEN ClampInt(p_lab[1] * den - 765 * strength[1], den)
                      ELSE ClampInt(p_lab[1] * den + 765 * strength[1], den)
         IN  lab_to_rgb_single(<<L_adj, p_lab[2], p_lab[3]>>)
    ELSE LET sum == (rgb[1] + rgb[2] + rgb[3]) % 256
             den == 10 * strength[2]
             num == IF sum * 64 < TiledBayer(c) * 765
                    THEN den - 3 * strength[1] ELSE den + 3 * strength[1]
         IN  [i \in 1..3 |-> ClampInt(rgb[i] * num, den)]

\* variant of old_pixel: the RGB of the pixel on the left, already written,
\* where there is one
old_pixel_left(px, c) ==
    IF <<c[1] - 1, c[2]>> \in DOMAIN px THEN px[<<c[1] - 1, c[2]>>][1] ELSE px[c][1]

\* old_pixel = img_array[y, x, :3].astype(np.uint8) (line 849)
old_pixel(px, c) == px[c][1]

\* lines 845-874, the first k pixels of the scan done on the working buffer:
\* a pixel outside alpha_mask is skipped, another takes the palette RGB
\* nearest to its adjusted colour, alpha kept
RECURSIVE OrderedLoop(_, _, _, _)
OrderedLoop(image, color_key, strength, k) ==
    IF k = 0 THEN image.px
    ELSE LET c == ScanTopDown(image.w, image.h)[k]
         IN  TheOne({IF ~alpha_mask(image, c) THEN px
                     ELSE [px EXCEPT ![c] =
                             <<ClosestRgb(PatternAdjusted(old_pixel(px, c), c, strength),
                                          color_key),
                               px[c][2]>>] :
                        px \in {OrderedLoop(image, color_key, strength, k - 1)}})

ordered_dithering(image, color_key, strength) ==
    [image EXCEPT !.px = OrderedLoop(image, color_key, strength, image.w * image.h)]

\* np.random.normal(0, 1) as the global generator deals it: the value a state
\* of the generator gives (in standard deviations); a draw moves the
\* generator to the next state
NormalDraws == <<-2, 1, 0, 2, -1>>

Draw(rng) == NormalDraws[(rng % Len(NormalDraws)) + 1]

\* lines 994-1008: the pixel with noise added, three draws in a row
NoisyPixel(rgb, strength, rng) ==
    IF use_lab
    THEN LET lab == rgb_to_lab_single(rgb)
         IN  lab_to_rgb_single(
               << ClampInt(lab[1] * 2 * strength[2] + Draw(rng) * 32 * strength[1],
                           2 * strength[2]),
                  ClampInt(lab[2] * 4 * strength[2] + Draw(rng + 1) * 32 * strength[1],
                           4 * strength[2]),
                  ClampInt(lab[3] * 4 * strength[2] + Draw(rng + 2) * 32 * strength[1],
                           4 * strength[2]) >>)
    ELSE [i \in 1..3 |->
            ClampInt(rgb[i] * strength[2] + Draw(rng + i - 1) * 32 * strength[1],
                     strength[2])]

\* lines 986-1015: the first k pixels of the scan done; the result is the
\* pixels and the state the generator is left in
RECURSIVE RandomLoop(_, _, _, _, _)
RandomLoop(image, color_key, strength, rng, k) ==
    IF k = 0 THEN [px |-> image.px, rng |-> rng]
    ELSE LET c == ScanTopDown(image.w, image.h)[k]
         IN  TheOne({IF image.px[c][2] = 0 THEN before
                     ELSE [px  |-> [before.px EXCEPT ![c] =
                                      <<KeyRgb(color_key,
                                               find_closest_color(
                                                  NoisyPixel(image.px[c][1], strength,
                                                             before.rng),
                                                  color_key)),
                                        image.px[c][2]>>],
                           rng |-> (before.rng + 3) % Len(NormalDraws)] :
                        before \in {RandomLoop(image, color_key, strength, rng, k - 1)}})

\* random_dithering(img, color_key, params): params carries no seed that the
\* function reads; the noise comes from the global generator
random_dithering(image, color_key, params, rng) ==
    LET done == RandomLoop(image, color_key, params.strength, rng, image.w * image.h)
    IN  [img |-> [image EXCEPT !.px = done.px], rng |-> done.rng]

\* color_matching: the batched matcher, pixels with alpha <= 191 put back
color_matching(image, color_key) ==
    LET mapped == find_closest_colors_image(image, color_key)
    IN  [mapped EXCEPT !.px = [c \in DOMAIN mapped.px |->
            IF image.px[c][2] > 191 THEN mapped.px[c] ELSE image.px[c]]]

ErrorDiffusionModes ==
    {"Atkinson Dither", "Floyd Dither", "Stucki Dither", "Jarvis Dither",
     "Sierra Dither", "Hybrid Dither"}

DitherModes == ErrorDiffusionModes \cup {"Pattern Dither", "Random Dither"}

\* process_image: the registered method of that name run on a copy of the
\* image, color_matching for a name that is not registered
process_image(image, color_key, mode, params, rng) ==
    LET strength == params.strength
    IN  CASE mode = "Atkinson Dither" ->
               optimized_error_diffusion_dithering(image, color_key, strength, atkinson_matrix)
          [] mode = "Floyd Dither" ->
               optimized_error_diffusion_dithering(image, color_key, strength,
                                                   floyd_steinberg_matrix)
          [] mode = "Stucki Dither" ->
               optimized_error_diffusion_dithering(image, color_key, strength, stucki_matrix)
          [] mode = "Jarvis Dither" ->
               optimized_error_diffusion_dithering(image, color_key, strength, jarvis_matrix)
          [] mode = "Sierra Dither" ->
               optimized_error_diffusion_dithering(image, color_key, strength, sierra_matrix)
          [] mode = "Hybrid Dither" -> hybrid_dithering(image, color_key, strength)
          [] mode = "Pattern Dither" -> ordered_dithering(image, color_key, strength)
          [] mode = "Random Dither" -> random_dithering(image, color_key, params, rng).img
          [] OTHER -> color_matching(image, color_key)

\* the state the global generator is left in by the call
RngAfter(image, color_key, mode, params, rng) ==
    IF mode = "Random Dither" THEN random_dithering(image, color_key, params, rng).rng
    ELSE rng

----------------------------------------------------------------------------
(* A processing method called on an image, while main may set use_lab *)

MaxCalls == 2        \* most calls of the processing method in a behaviour

\* pixels of the image handed to a processing method
DitherPixels == {<<DarkRed, 255>>, <<White, 0>>, <<Red, 128>>}

DitherImages == Images(2, 2, DitherPixels)

DitherPalettes ==
    { <<[number |-> 0, rgb |-> Black], [number |-> 1, rgb |-> Red]>>,
      <<[number |-> 5, rgb |-> Red], [number |-> -1, rgb |-> Black]>>,
      <<[number |-> 0, rgb |-> Black], [number |-> 1, rgb |-> White]>> }

\* params of a processing method: the strength, and a seed entry (absent or
\* given) for the random method
DitherParams ==
    [strength : {<<1, 1>>, <<1, 2>>}, seed : {<<>>, <<7>>}]

InitDither ==
    /\ pc = "dither"
    /\ use_lab \in BOOLEAN
    /\ color_key_array \in DitherPalettes
    /\ img \in DitherImages
    /\ process_mode \in DitherModes
    /\ process_params \in DitherParams
    /\ process_mode # "Random Dither" => process_params.seed = <<>>
    /\ rng_state \in 0..(Len(NormalDraws) - 1)
    /\ process_mode # "Random Dither" => rng_state = 0
    /\ process_mode = "Random Dither" => process_params.strength = <<1, 1>>
    /\ calls = <<>>
    /\ IdleBg /\ IdleDiffuse /\ IdleUi
    /\ IdleMatch /\ IdleStatic /\ IdleGif /\ IdleRun
    /\ stamp_txt = EmptyFile

\* process_image(img, color_key, process_mode, process_params): the method
\* works on a copy (lines 595, 806, 969, 1120; np.array(img) at line 698), so
\* the image passed in keeps its pixels
CallProcessImage ==
    /\ pc = "dither"
    /\ Len(calls) < MaxCalls
    /\ LET color_key == build_color_key(color_key_array)
       IN  /\ calls' = Append(calls,
                 [use_lab |-> use_lab,
                  params  |-> process_params,
                  out     |-> process_image(img, color_key, process_mode, process_params,
                                            rng_state)])
           /\ rng_state' = RngAfter(img, color_key, process_mode, process_params, rng_state)
    /\ UNCHANGED <<moreVars, pc, use_lab, color_key_array, img, matchVars, staticVars, stamp_txt,
                   gifVars, process_mode, process_params, runVars>>

\* main, lines 1760-1761: a run that starts stores its argument use_lab_flag in the
\* module-level use_lab
MainSetsUseLab(flag) ==
    /\ pc = "dither"
    /\ use_lab' = flag
    /\ UNCHANGED <<moreVars, pc, color_key_array, img, matchVars, staticVars, stamp_txt,
                   gifVars, ditherVars, runVars>>

NextDither ==
    \/ CallProcessImage
    \/ \E flag \in BOOLEAN : MainSetsUseLab(flag)

SpecDither == InitDither /\ [][NextDither]_vars

----------------------------------------------------------------------------
(* Claims about the processing methods *)

\* C11: after a call of an error-diffusion method (Atkinson, Floyd, Stucki,
\* Jarvis, Sierra, Hybrid) the result has the input's size and the input's
\* alpha at every pixel, and every pixel whose alpha is 0 has the input's RGB.
C11_AlphaFrozen ==
    process_mode \in ErrorDiffusionModes =>
        \A k \in 1..Len(calls) :
            /\ calls[k].out.w = img.w /\ calls[k].out.h = img.h
            /\ DOMAIN calls[k].out.px = DOMAIN img.px
            /\ \A c \in DOMAIN img.px :
                  /\ calls[k].out.px[c][2] = img.px[c][2]
                  /\ img.px[c][2] = 0 => calls[k].out.px[c][1] = img.px[c][1]

\* C11 witness: an error-diffusion call has returned; the pixel (1, 0) has
\* alpha 0 and a colour the palette does not hold, and its left neighbour
\* (0, 0) was quantized to another colour, so it had an error to spread.
C11_Witness ==
    /\ process_mode \in ErrorDiffusionModes
    /\ Len(calls) >= 1
    /\ img.px[<<1, 0>>][2] = 0
    /\ \A i \in 1..Len(color_key_array) : color_key_array[i].rgb # img.px[<<1, 0>>][1]
    /\ img.px[<<0, 0>>][2] > 0
    /\ calls[1].out.px[<<0, 0>>][1] # img.px[<<0, 0>>][1]

\* C25: in ordered dithering the input colour of one pixel has no effect on
\* the output at another pixel (the output at a pixel depends on its own
\* input RGB, its Bayer threshold, the strength, the palette and the colour
\* space only), and a pixel with alpha 0 comes out as it went in.
C25_NoErrorCarried ==
    process_mode = "Pattern Dither" =>
        \A k \in 1..Len(calls) :
            calls[k].use_lab = use_lab =>
                /\ \A c \in DOMAIN img.px :
                      img.px[c][2] = 0 => calls[k].out.px[c] = img.px[c]
                /\ \A d \in DOMAIN img.px : \A p \in DitherPixels :
                      \A other \in {ordered_dithering([img EXCEPT !.px[d] = p],
                                                      build_color_key(color_key_array),
                                                      calls[k].params.strength)} :
                          \A c \in DOMAIN img.px \ {d} :
                              other.px[c] = calls[k].out.px[c]

\* C25 witness: an ordered-dithering call has returned on an image with a
\* transparent pixel at (1, 0) whose left neighbour was given another colour
\* than it had
C25_Witness ==
    /\ process_mode = "Pattern Dither"
    /\ Len(calls) >= 1
    /\ calls[1].use_lab = use_lab
    /\ img.px[<<1, 0>>][2] = 0
    /\ img.px[<<0, 0>>][2] > 0
    /\ img.px[<<1, 1>>][2] > 0
    /\ calls[1].out.px[<<0, 0>>][1] # img.px[<<0, 0>>][1]

\* two calls of the method with the same image, palette and params, made
\* while use_lab held the same value, returned the same image
SameModeSameImage ==
    process_mode # "Random Dither" =>
        \A j, k \in 1..Len(calls) :
            calls[j].use_lab = calls[k].use_lab => calls[j].out = calls[k].out

\* C19 as stated: two calls of the same ordered or error-diffusion method
\* (Pattern, Atkinson, Floyd, Stucki, Jarvis, Sierra, Hybrid) with the same
\* image, palette and params return the same image.
C19_SameArgumentsSameImage ==
    process_mode # "Random Dither" =>
        \A j, k \in 1..Len(calls) : calls[j].out = calls[k].out

\* C20 as stated: two calls of the random method with the same image, palette,
\* strength and seed (and the same colour space) return the same image.
C20_SameSeedSameImage ==
    process_mode = "Random Dither" =>
        \A j, k \in 1..Len(calls) :
            ( /\ calls[j].params.seed # <<>>
              /\ calls[j].params = calls[k].params
              /\ calls[j].use_lab = calls[k].use_lab )
            => calls[j].out = calls[k].out


----------------------------------------------------------------------------
(* A run of main: process_and_save_image for a still image,                 *)
(* process_and_save_gif and save_frames for an animation, with the failures *)
(* the code catches and the callbacks it calls.                             *)

\* stamp.txt and frames.txt as an earlier run left them
PreviousStamp ==
    [header |-> <<<<Scaled(1), Scaled(1), "img">>>>,
     points |-> << <<Scaled(0), Scaled(0), 0>> >>]

PreviousFrames == << [index |-> 1, delay |-> <<>>, lines |-> {}] >>

\* palettes handed to main: none of the entries enabled, or two entries
RunPalettes ==
    { <<>>, <<[number |-> 0, rgb |-> White], [number |-> 1, rgb |-> Black]>> }

\* pixels of a still image: alpha 255, between the limits 191 and 204, at 191, and 0
RunPixels == {<<Black, 255>>, <<White, 200>>, <<White, 191>>, <<White, 0>>}

\* pixels of a frame of an animation
RunFramePixels == {<<Black, 255>>, <<White, 200>>}

RunSources ==
    {<<image>> : image \in Images(2, 1, RunPixels)}
      \cup UNION {[1..n -> Images(1, 1, RunFramePixels)] : n \in 2..MaxFrames}

RunModes == {"Color Match", "Floyd Dither"}

\* the failures inflicted: on the tone preprocessor (inside
\* compute_brightness_adjustment, or in the body of preprocess_image) at one
\* frame, and on the encoding of pixels of the still image
Faults == [tone : {"none", "brightness", "body"}, frame : 1..2,
           pixels : {{}, {<<0, 0>>}}]

\* alpha values of an image
Alphas(image) == {image.px[c][2] : c \in DOMAIN image.px}

\* the colours the tone preprocessor may give a pixel
ToneColors == {Black, White}

\* opaque_mask = alpha_channel >= config['alpha_threshold'] (line 407)
OpaqueForTone(a) == a >= 191

\* Recomposite without line 526: the filtered RGB kept at every pixel
Recomposite_no_restore(image, rgb_image) ==
    [image EXCEPT !.px = [c \in DOMAIN image.px |-> <<rgb_image[c], image.px[c][2]>>]]

\* preprocess_image, lines 520-532: rgb_image is what the filters of lines
\* 411-518 made of all the pixels; the pixels outside opaque_mask (alpha >=
\* 191, line 407) get their RGB back from the input (line 526) and the alpha
\* channel of the input is stacked on (line 528)
Recomposite(image, rgb_image) ==
    [image EXCEPT !.px = [c \in DOMAIN image.px |->
        <<IF ~OpaqueForTone(image.px[c][2]) THEN image.px[c][1] ELSE rgb_image[c],
          image.px[c][2]>>]]

\* preprocess_image, lines 403-532, as the set of images it may return: the
\* filters work on the RGB of the whole image, then the re-composite
Toned(image) ==
    {Recomposite(image, rgb_image) : rgb_image \in [DOMAIN image.px -> ToneColors]}

\* preprocess_image lets an exception out: one raised in its body, or min()
\* of the empty list of palette luminances (line 441); an exception inside
\* compute_brightness_adjustment is caught there (lines 285-287)
ToneRaises(k) ==
    \/ fault.tone = "body" /\ fault.frame = k
    \/ Len(color_key_array) = 0

\* what the tone preprocessor logs for frame k (line 286); a log entry is
\* <<text, place>>, the place being a pixel coordinate or <<frame, 0>>
ToneLog(k) ==
    IF fault.tone = "brightness" /\ fault.frame = k
    THEN {<<"Error computing brightness adjustment", <<k, 0>>>>} ELSE {}

\* process_image raises on an empty palette: the batched matcher always, a
\* dithering method in LAB mode always (rgb_palette_to_lab) and in RGB mode at
\* the first pixel with alpha > 0
ProcessRaises(image, mode) ==
    /\ Len(color_key_array) = 0
    /\ \/ mode \notin DitherModes
       \/ use_lab
       \/ \E c \in DOMAIN image.px : image.px[c][2] > 0


\* opaque_mask = (alpha_channel > alpha_threshold) (line 616)
OpaqueForMatch(a) == a > 191

\* if a < opacity_threshold: the pixel is cleared (lines 1626-1632)
OpaqueForSaveFrames(a) == ~(a < 204)

\* if a <= 191: the pixel is skipped (lines 1320, 1428, 1468)
OpaqueForEncoder(a) == ~(a <= 191)

\* the verdicts of a stage on the alpha values it looks at
Verdicts(stage, alphas) ==
    {<<stage, a, CASE stage = "tone" -> OpaqueForTone(a)
                   [] stage = "match" -> OpaqueForMatch(a)
                   [] stage = "save_frames" -> OpaqueForSaveFrames(a)
                   [] stage = "encode" -> OpaqueForEncoder(a)>> : a \in alphas}

InitRun ==
    /\ pc = "main"
    /\ use_lab = FALSE
    /\ use_lab_flag \in BOOLEAN
    /\ color_key_array \in RunPalettes
    /\ source \in RunSources
    /\ img = source[1]
    /\ process_mode \in RunModes
    /\ process_params = [strength |-> <<1, 1>>, seed |-> <<>>]
    /\ rng_state = 0 /\ calls = <<>>
    /\ preprocess_flag \in BOOLEAN
    /\ fault \in Faults
    /\ ~preprocess_flag => fault.tone = "none"
    /\ (fault.tone # "body" \/ Len(source) = 1) => fault.frame = 1
    /\ Len(source) > 1 => fault.pixels = {}
    /\ errors = <<>> /\ messages = {} /\ progress = <<>>
    /\ opaque_seen = {} /\ modes_used = {}
    /\ IdleBg /\ IdleDiffuse /\ IdleUi
    /\ IdleMatch /\ IdleStatic
    /\ stamp_txt = PreviousStamp
    /\ frames_txt = PreviousFrames
    /\ frames_in = <<>> /\ durations = [k \in 1..Len(source) |-> <<>>]
    /\ delays = <<>> /\ frame_files = <<>>
    /\ total_frames = 0 /\ uniform_delay = 0
    /\ Frame1Array = <<>> /\ first_frame_pixels = <<>>
    /\ frame_number = 0 /\ header_frame_number = 0

\* process_and_save_image or process_and_save_gif has returned to main: after
\* its last statement, or from one of its exception handlers
Terminal == {"run_done", "run_failed"}

\* main, lines 1756-1830: use_lab and brightness stored in the globals, the
\* image opened, the animated or the still branch taken
Main ==
    /\ pc = "main"
    /\ use_lab' = use_lab_flag
    /\ pc' = IF Len(source) > 1 THEN "gif_run" ELSE "img_run"
    /\ UNCHANGED <<moreVars, color_key_array, img, matchVars, staticVars, stamp_txt, gifVars,
                   ditherVars, runVars>>

\* main called by another ImageProcessingThread while this run is under way
\* (lines 1760-1761 of that call)
OtherMain(flag) ==
    /\ pc \notin {"main", "main_returned", "thread_done"} \cup Terminal
    /\ use_lab' = flag
    /\ UNCHANGED <<moreVars, pc, color_key_array, img, matchVars, staticVars, stamp_txt, gifVars,
                   ditherVars, runVars>>

\* process_and_save_image, lines 1229-1257: the image prepared and, with
\* preprocess_flag, run through preprocess_image; an exception goes to the
\* handler of lines 1340-1342
RunStaticTone ==
    /\ pc = "img_run"
    /\ IF ~preprocess_flag
       THEN /\ pc' = "img_toned"
            /\ UNCHANGED <<img, errors, messages, opaque_seen, modes_used>>
       ELSE /\ messages' = messages \cup ToneLog(1)
            /\ modes_used' = modes_used \cup {<<"tone", use_lab>>}
            /\ opaque_seen' = opaque_seen \cup Verdicts("tone", Alphas(img))
            /\ IF ToneRaises(1)
               THEN /\ errors' = Append(errors, "An error occurred")
                    /\ pc' = "run_failed"
                    /\ UNCHANGED img
               ELSE /\ img' \in Toned(img)
                    /\ pc' = "img_toned"
                    /\ UNCHANGED errors
    /\ UNCHANGED <<moreVars, use_lab, color_key_array, matchVars, staticVars, stamp_txt, gifVars,
                   ditherVars, runIn, progress>>

\* lines 1259-1266: build_color_key and process_image
RunStaticProcess ==
    /\ pc = "img_toned"
    /\ modes_used' = modes_used \cup {<<"process", use_lab>>}
    /\ IF ProcessRaises(img, process_mode)
       THEN /\ errors' = Append(errors, "An error occurred")
            /\ pc' = "run_failed"
            /\ UNCHANGED <<img, opaque_seen>>
       ELSE /\ img' = process_image(img, build_color_key(color_key_array), process_mode,
                                    process_params, rng_state)
            /\ opaque_seen' = opaque_seen \cup
                 (IF process_mode \notin DitherModes
                  THEN Verdicts("match", Alphas(img)) ELSE {})
            /\ pc' = "img_processed"
            /\ UNCHANGED errors
    /\ UNCHANGED <<moreVars, use_lab, color_key_array, matchVars, staticVars, stamp_txt, gifVars,
                   ditherVars, runIn, messages, progress>>

\* lines 1268-1287: the preview filtered, cropped and saved
RunStaticPreview ==
    /\ pc = "img_processed"
    /\ preview_png' = <<crop_to_solid_area(FilterTransparent(img))>>
    /\ pc' = "img_preview"
    /\ UNCHANGED <<moreVars, use_lab, color_key_array, img, matchVars, stamp_txt, gifVars,
                   ditherVars, runVars>>

\* lines 1304-1335 with failures: a pixel whose encoding raises is reported to
\* message_callback by the handler of lines 1333-1335 and left out
StaticPointsExcept(image, color_key, failing) ==
    LET Written(c) == image.px[c][2] > 191 /\ c \notin failing
        kept == SelectSeq(ScanBottomUp(image.w, image.h), Written)
    IN  [k \in 1..Len(kept) |->
            <<Scaled(kept[k][1]), Scaled(image.h - 1 - kept[k][2]),
              find_closest_color(image.px[kept[k]][1], color_key)>>]

\* lines 1289-1338: stamp.txt opened for writing, the header and the points
\* written, "Processing complete!"
RunStaticEncode ==
    /\ pc = "img_preview"
    /\ LET image == preview_png[1]
           failed == {c \in fault.pixels \cap DOMAIN image.px : image.px[c][2] > 191}
       IN  /\ stamp_txt' =
                [header |-> <<<<Scaled(image.w), Scaled(image.h), "img">>>>,
                 points |-> StaticPointsExcept(image, build_color_key(color_key_array),
                                               fault.pixels)]
           /\ messages' = messages \cup {<<"Error processing pixel", c>> : c \in failed}
                                   \cup {<<"Processing complete! Output saved", <<0, 0>>>>}
           /\ opaque_seen' = opaque_seen \cup
                               Verdicts("encode", Alphas(image))
           /\ modes_used' = modes_used \cup
                 (IF \E c \in DOMAIN image.px : image.px[c][2] > 191 /\ c \notin failed
                  THEN {<<"encode", use_lab>>} ELSE {})
    /\ pc' = "run_done"
    /\ UNCHANGED <<moreVars, use_lab, color_key_array, img, matchVars, staticVars, gifVars,
                   ditherVars, runIn, errors, progress>>

\* process_and_save_gif, lines 1351-1380: frames.txt cleared, the delays
\* gathered, uniform_delay set
RunGifOpen ==
    /\ pc = "gif_run"
    /\ frames_txt' = <<>>
    /\ total_frames' = Len(source)
    /\ delays' = [k \in 1..Len(source) |-> GetDuration(durations[k])]
    /\ uniform_delay' = UniformDelay(delays')
    /\ pc' = "gif_run_open"
    /\ UNCHANGED <<moreVars, use_lab, color_key_array, img, matchVars, staticVars, stamp_txt,
                   frames_in, durations, frame_files, Frame1Array,
                   first_frame_pixels, frame_number, header_frame_number,
                   ditherVars, runVars>>

\* the first frame at which save_frames raises, given the frames the tone
\* preprocessor returned; one more than the number of frames when none does
FirstRaising(toned) ==
    LET Raises(k) == \/ preprocess_flag /\ ToneRaises(k)
                     \/ ProcessRaises(toned[k], process_mode)
        bad == {k \in 1..Len(source) : Raises(k)}
    IN  IF bad = {} THEN Len(source) + 1
        ELSE CHOOSE k \in bad : \A j \in bad : k <= j

\* the frames as preprocess_image may return them, frame by frame
TonedFrames ==
    IF preprocess_flag
    THEN {f \in [1..Len(source) -> UNION {Toned(source[k]) : k \in 1..Len(source)}] :
             \A k \in 1..Len(source) : f[k] \in Toned(source[k])}
    ELSE {source}

\* save_frames, lines 1568-1647: the Frames folder emptied, then frame after
\* frame preprocessed, processed, thresholded at 204, saved and reported to
\* progress_callback; an exception ends the loop in the handler of lines
\* 1645-1647, which calls error_callback and returns to process_and_save_gif
RunSaveFrames ==
    /\ pc = "gif_run_open"
    /\ \E toned \in TonedFrames :
       \E stop \in {FirstRaising(toned)} :
       \E processed \in {[k \in 1..(stop - 1) |->
                              process_image(toned[k], build_color_key(color_key_array),
                                            process_mode, process_params, rng_state)]} :
          LET reached == 1..(IF stop > Len(source) THEN Len(source) ELSE stop)
          IN  /\ frames_in' = processed
              /\ frame_files' = [k \in 1..(stop - 1) |-> SavedFrame(processed[k])]
              /\ progress' = progress \o [k \in 1..(stop - 1) |-> <<k * 100, Len(source)>>]
              /\ errors' = IF stop <= Len(source)
                           THEN Append(errors, "An error occurred while saving frames")
                           ELSE errors
              /\ messages' = messages \cup
                    (IF preprocess_flag THEN UNION {ToneLog(k) : k \in reached} ELSE {})
              /\ opaque_seen' = opaque_seen
                    \cup (IF preprocess_flag
                          THEN UNION {Verdicts("tone", Alphas(source[k])) :
                                         k \in reached}
                          ELSE {})
                    \cup (IF process_mode \notin DitherModes
                          THEN UNION {Verdicts("match", Alphas(toned[k])) :
                                         k \in 1..(stop - 1)}
                          ELSE {})
                    \cup UNION {Verdicts("save_frames", Alphas(processed[k])) : k \in 1..(stop - 1)}
              /\ modes_used' = modes_used
                    \cup (IF preprocess_flag THEN {<<"tone", use_lab>>} ELSE {})
                    \cup (IF stop > 1 \/ ~(preprocess_flag /\ ToneRaises(1))
                          THEN {<<"process", use_lab>>} ELSE {})
    /\ pc' = "gif_run_saved"
    /\ UNCHANGED <<moreVars, use_lab, color_key_array, img, matchVars, staticVars, stamp_txt,
                   frames_txt, durations, delays, total_frames,
                   uniform_delay, Frame1Array, first_frame_pixels, frame_number,
                   header_frame_number, ditherVars, runIn>>

\* lines 1386-1449: frame_1.png opened (an exception when it is not there:
\* the test of line 1393 is on the method object and never fails), the header
\* and the first frame written to stamp.txt
RunGifFirstFrame ==
    /\ pc = "gif_run_saved"
    /\ IF 1 \notin DOMAIN frame_files
       THEN /\ errors' = Append(errors, "An error occurred in process_and_save_gif")
            /\ pc' = "run_failed"
            /\ UNCHANGED <<stamp_txt, Frame1Array, first_frame_pixels, frame_number,
                           header_frame_number, opaque_seen, modes_used>>
       ELSE LET first_frame == frame_files[1]
                color_key == build_color_key(color_key_array)
            IN  /\ stamp_txt' =
                     [header |-> <<<<Scaled(first_frame.w), Scaled(first_frame.h), "gif",
                                     total_frames, uniform_delay>>>>,
                      points |-> FirstFramePoints(first_frame, color_key)]
                /\ Frame1Array' = FirstFrameMap(first_frame, color_key)
                /\ first_frame_pixels' = FirstFrameMap(first_frame, color_key)
                /\ header_frame_number' = 1
                /\ frame_number' = 2
                /\ opaque_seen' = opaque_seen \cup
                      Verdicts("encode", Alphas(first_frame))
                /\ modes_used' = modes_used \cup
                      (IF \E a \in Alphas(first_frame) : a > 191
                       THEN {<<"encode", use_lab>>} ELSE {})
                /\ pc' = "gif_run_frames"
                /\ UNCHANGED errors
    /\ UNCHANGED <<moreVars, use_lab, color_key_array, img, matchVars, staticVars, frames_txt,
                   frames_in, durations, delays, frame_files, total_frames,
                   uniform_delay, ditherVars, runIn, messages, progress>>

\* lines 1451-1518, one pass of the loop: frame_<k>.png opened (an exception
\* when it is not there), its diff appended to frames.txt, the percentage
\* (frame_number - 1) / total_frames * 100 passed to progress_callback
RunGifNextFrame ==
    /\ pc = "gif_run_frames"
    /\ frame_number <= total_frames
    /\ IF frame_number \notin DOMAIN frame_files
       THEN /\ errors' = Append(errors, "An error occurred in process_and_save_gif")
            /\ pc' = "run_failed"
            /\ UNCHANGED <<frames_txt, Frame1Array, frame_number, header_frame_number,
                           progress, opaque_seen, modes_used>>
       ELSE LET frame == frame_files[frame_number]
                current_frame_pixels ==
                    CurrentFramePixels(frame, frame_files[1].w, frame_files[1].h,
                                       build_color_key(color_key_array))
            IN  /\ frames_txt' = Append(frames_txt,
                                        Block(header_frame_number,
                                              FrameDelay(delays, frame_number),
                                              Diffs(Frame1Array, current_frame_pixels)))
                /\ Frame1Array' = current_frame_pixels
                /\ header_frame_number' = NextHeaderNumber(header_frame_number)
                /\ frame_number' = frame_number + 1
                /\ progress' = Append(progress, <<(frame_number - 1) * 100, total_frames>>)
                /\ opaque_seen' = opaque_seen \cup
                      Verdicts("encode", Alphas(frame))
                /\ modes_used' = modes_used \cup
                      (IF \E a \in Alphas(frame) : a > 191
                       THEN {<<"encode", use_lab>>} ELSE {})
                /\ UNCHANGED <<pc, errors>>
    /\ UNCHANGED <<moreVars, use_lab, color_key_array, img, matchVars, staticVars, stamp_txt,
                   frames_in, durations, delays, frame_files, total_frames,
                   uniform_delay, first_frame_pixels, ditherVars, runIn, messages>>

\* lines 1520-1562: the closing block appended, the preview GIF made
RunGifCloseLoop ==
    /\ pc = "gif_run_frames"
    /\ frame_number > total_frames
    /\ frames_txt' = Append(frames_txt,
                            Block(header_frame_number, delays[1],
                                  ClosingDiffs(first_frame_pixels, Frame1Array)))
    /\ messages' = messages \cup
                    {<<"Processing of animated image frames complete!", <<0, 0>>>>}
    /\ pc' = "run_done"
    /\ UNCHANGED <<moreVars, use_lab, color_key_array, img, matchVars, staticVars, stamp_txt,
                   frames_in, durations, delays, frame_files, total_frames,
                   uniform_delay, Frame1Array, first_frame_pixels, frame_number,
                   header_frame_number, ditherVars, runIn, errors, progress,
                   opaque_seen, modes_used>>

\* main, lines 1832-1833: the call of process_and_save_image or of
\* process_and_save_gif has returned; message_callback("Processing complete!")
MainReturns ==
    /\ pc \in Terminal
    /\ messages' = messages \cup {<<"Processing complete!", <<0, 0>>>>}
    /\ pc' = "main_returned"
    /\ UNCHANGED <<moreVars, use_lab, color_key_array, img, matchVars, staticVars, stamp_txt,
                   gifVars, ditherVars, runIn, errors, progress, opaque_seen, modes_used>>

\* ImageProcessingThread.run, lines 2035-2036: future.result() has returned;
\* self.signals.message.emit("Processing finished")
ThreadRunReturns ==
    /\ pc = "main_returned"
    /\ messages' = messages \cup {<<"Processing finished", <<0, 0>>>>}
    /\ pc' = "thread_done"
    /\ UNCHANGED <<moreVars, use_lab, color_key_array, img, matchVars, staticVars, stamp_txt,
                   gifVars, ditherVars, runIn, errors, progress, opaque_seen, modes_used>>

NextRun ==
    \/ Main
    \/ \E flag \in BOOLEAN : OtherMain(flag)
    \/ RunStaticTone
    \/ RunStaticProcess
    \/ RunStaticPreview
    \/ RunStaticEncode
    \/ RunGifOpen
    \/ RunSaveFrames
    \/ RunGifFirstFrame
    \/ RunGifNextFrame
    \/ RunGifCloseLoop
    \/ MainReturns
    \/ ThreadRunReturns

SpecRun == InitRun /\ [][NextRun]_vars

----------------------------------------------------------------------------
(* Claims about a run of main *)

\* C12: every stage whose behaviour depends on opacity (tone preprocessor,
\* Color Match, frame saving, encoders) takes a pixel as opaque exactly when
\* its alpha is >= 191, so no alpha value is opaque for one stage and not
\* opaque for another.
C12_SingleOpacityThreshold ==
    /\ \A e \in opaque_seen : e[3] = (e[2] >= 191)
    /\ \A d, e \in opaque_seen : d[2] = e[2] => d[3] = e[3]

\* C13: a run given an empty color_key_array is rejected with an error
\* reported to the caller, and stamp.txt and frames.txt are left as they were.
C13_EmptyPaletteRejected ==
    (Len(color_key_array) = 0 /\ pc # "main") =>
        /\ stamp_txt = PreviousStamp
        /\ frames_txt = PreviousFrames
        /\ pc \in Terminal => (pc = "run_failed" /\ errors # <<>>)

\* C14: a run that failed at some step has left stamp.txt and frames.txt as
\* the previous run wrote them: nothing truncated, header-only or half-written.
C14_AllOrNothing ==
    pc = "run_failed" => (stamp_txt = PreviousStamp /\ frames_txt = PreviousFrames)

\* C15: when the encoding of a pixel of the still image has failed, the run
\* does not complete: it stops and the failure is passed to error_callback.
C15_EncodingFailureFatal ==
    (\E m \in messages : m[1] = "Error processing pixel") =>
        (pc # "run_done" /\ errors # <<>>)

\* C16: a run with preprocessing enabled in which the tone preprocessor raised
\* an exception still goes on to dither and encode and ends with a stamp
\* document; it is not aborted.
C16_ToneFailureRecovered ==
    ( /\ pc \in Terminal
      /\ preprocess_flag
      /\ fault.tone # "none"
      /\ Len(color_key_array) > 0 )
    => (pc = "run_done" /\ errors = <<>>)

\* C17: in a run on an animation of N >= 2 frames no percentage passed to
\* progress_callback is lower than one passed earlier in the run.
C17_MonotoneProgress ==
    \A i, j \in 1..Len(progress) :
        i < j => progress[i][1] * progress[j][2] <= progress[j][1] * progress[i][2]

\* C29: once error_callback has been called in a run, message_callback gets
\* neither "Processing complete!" nor "Processing finished" in that run.
C29_CompletionOnlyOnSuccess ==
    [][errors # <<>> =>
          ~\E m \in messages' \ messages :
               m[1] \in {"Processing complete!", "Processing finished"}]_vars

\* C26: what preprocess_image returns has the alpha of its input at every
\* pixel, and every pixel with alpha < 191 has the RGB of the input.
C26_ToneRecomposite ==
    (pc = "img_toned" /\ preprocess_flag) =>
        \A c \in DOMAIN source[1].px :
            /\ img.px[c][2] = source[1].px[c][2]
            /\ source[1].px[c][2] < 191 => img.px[c][1] = source[1].px[c][1]

\* a still image with a pixel under the threshold has been preprocessed and
\* an opaque pixel of it has changed its colour
C26_Witness ==
    /\ pc = "img_toned" /\ preprocess_flag
    /\ \E c \in DOMAIN source[1].px : source[1].px[c][2] < 191
    /\ \E c \in DOMAIN source[1].px : img.px[c][1] # source[1].px[c][1]
\* C30: in the animation encoder, when the saved file of frame 1 is absent
\* the run reports an error and ends with stamp.txt not written; when the
\* saved file of a frame k >= 2 is absent, that frame is skipped: no block is
\* appended to frames.txt, the header index stays, no error is reported and
\* the loop goes on with frame k + 1.  Stated of the steps of the encoder.
C30_MissingFrameHandling ==
    [][ /\ (pc = "gif_run_saved" /\ pc' # pc /\ 1 \notin DOMAIN frame_files) =>
              /\ Len(errors') > Len(errors)
              /\ stamp_txt' = stamp_txt
              /\ pc' \in Terminal
        /\ ( /\ pc = "gif_run_frames"
             /\ <<pc, frame_number>>' # <<pc, frame_number>>
             /\ frame_number <= total_frames
             /\ frame_number \notin DOMAIN frame_files ) =>
              /\ frames_txt' = frames_txt
              /\ header_frame_number' = header_frame_number
              /\ errors' = errors
              /\ frame_number' = frame_number + 1
              /\ pc' = "gif_run_frames" ]_vars

\* C18: every stage of a run (tone preprocessor, dithering or matching,
\* encoder) works in the colour space passed to the run as use_lab_flag, also
\* when another run of main starts meanwhile.
C18_ModeFixedPerRun ==
    \A e \in modes_used : e[2] = use_lab_flag

----------------------------------------------------------------------------
(* A run of main on a still image whose colours are all in the palette *)

ExactPalettes ==
    { <<[number |-> 0, rgb |-> White], [number |-> 1, rgb |-> Black]>>,
      <<[number |-> 3, rgb |-> Red], [number |-> 0, rgb |-> White],
        [number |-> 1, rgb |-> Black]>> }

\* the fully opaque images with the given colours: 1x1, 2x1, 2x2, and the
\* 4x4 image of one colour
ExactImages(colors) ==
    LET opaque == {<<rgb, 255>> : rgb \in colors}
    IN  Images(1, 1, opaque) \cup Images(2, 1, opaque) \cup Images(2, 2, opaque)
          \cup {[w |-> 4, h |-> 4, px |-> [c \in Coords(4, 4) |-> p]] : p \in opaque}

InitExact ==
    /\ pc = "main"
    /\ use_lab = FALSE
    /\ use_lab_flag = FALSE
    /\ color_key_array \in ExactPalettes
    /\ source \in {<<image>> :
                     image \in ExactImages({color_key_array[k].rgb :
                                               k \in 1..Len(color_key_array)})}
    /\ img = source[1]
    /\ process_mode \in ErrorDiffusionModes
    /\ process_params = [strength |-> <<1, 1>>, seed |-> <<>>]
    /\ rng_state = 0 /\ calls = <<>>
    /\ preprocess_flag = FALSE
    /\ fault = NoFault
    /\ errors = <<>> /\ messages = {} /\ progress = <<>>
    /\ opaque_seen = {} /\ modes_used = {}
    /\ IdleBg /\ IdleDiffuse /\ IdleUi
    /\ IdleMatch /\ IdleStatic
    /\ stamp_txt = PreviousStamp
    /\ frames_txt = PreviousFrames
    /\ frames_in = <<>> /\ durations = <<<<>>>>
    /\ delays = <<>> /\ frame_files = <<>>
    /\ total_frames = 0 /\ uniform_delay = 0
    /\ Frame1Array = <<>> /\ first_frame_pixels = <<>>
    /\ frame_number = 0 /\ header_frame_number = 0

NextExact ==
    \/ Main
    \/ RunStaticTone
    \/ RunStaticProcess
    \/ RunStaticPreview
    \/ RunStaticEncode
    \/ MainReturns
    \/ ThreadRunReturns

SpecExact == InitExact /\ [][NextExact]_vars

\* the run has dithered the image
ExactDithered == pc \in {"img_processed", "img_preview", "run_done", "main_returned",
                         "thread_done"}

\* the run has written stamp.txt
ExactEncoded == pc \in {"run_done", "main_returned", "thread_done"}

\* the 4x4 all-white image, palette {0: ffffff, 1: 000000}, Atkinson dither
ExactScenario ==
    /\ source[1] = [w |-> 4, h |-> 4, px |-> [c \in Coords(4, 4) |-> <<White, 255>>]]
    /\ color_key_array = <<[number |-> 0, rgb |-> White], [number |-> 1, rgb |-> Black]>>
    /\ process_mode = "Atkinson Dither"

\* C22: a fully opaque image whose every pixel has the RGB of a palette entry
\* comes out of error-diffusion dithering at strength 1.0 in RGB mode
\* unchanged, and the static encoder writes for every pixel the number of the
\* entry with its RGB; the 4x4 all-white image with palette {0: ffffff, 1:
\* 000000} and Atkinson dither gives the header 0.4,0.4,img and 16 points,
\* all of colour 0.
C22_ExactPaletteUnchanged ==
    /\ ExactDithered => img = source[1]
    /\ ExactEncoded =>
          LET image == source[1]
              scan == ScanBottomUp(image.w, image.h)
          IN  /\ errors = <<>>
              /\ stamp_txt.header = <<<<Scaled(image.w), Scaled(image.h), "img">>>>
              /\ Len(stamp_txt.points) = image.w * image.h
              /\ \A k \in 1..Len(stamp_txt.points) :
                    \E j \in 1..Len(color_key_array) :
                        /\ color_key_array[j].number = stamp_txt.points[k][3]
                        /\ color_key_array[j].rgb = image.px[scan[k]][1]
    /\ (ExactEncoded /\ ExactScenario) =>
          /\ stamp_txt.header = <<<<<<0, 4>>, <<0, 4>>, "img">>>>
          /\ Len(stamp_txt.points) = 16
          /\ \A k \in 1..16 : stamp_txt.points[k][3] = 0

\* the run on the 4x4 all-white image with Atkinson dither has written stamp.txt
C22_Witness ==
    /\ pc = "run_done"
    /\ ExactScenario

----------------------------------------------------------------------------
(* remove_background called on an image *)

\* what goes wrong inside remove_background: nothing, the import of
\* onnxruntime (line 155), the isinstance test (lines 163-164), the loading of
\* the model (line 203), the inference (line 205)
BgFailures == {"none", "runtime", "input_type", "model", "inference"}

BgPixels == {<<Black, 255>>, <<White, 128>>, <<Red, 0>>}

BgImages == Images(2, 1, BgPixels) \cup Images(1, 2, BgPixels)

\* remove_background, lines 141-247.  The import statement of line 155 stands
\* before the try of line 159; every later failure is raised inside the try
\* and ends in the handler of lines 245-247, which returns input_image.  With
\* no failure the pixels the mask keeps are pasted on a transparent white
\* image (lines 239-241).  The result is [raised, value]: an exception left
\* the call, or the call returned <<image>>.
remove_background(input_image, failure, mask) ==
    IF failure = "runtime" THEN [raised |-> TRUE, value |-> None]
    ELSE IF failure # "none" THEN [raised |-> FALSE, value |-> <<input_image>>]
    ELSE [raised |-> FALSE,
          value |-> << [input_image EXCEPT !.px =
                          [c \in DOMAIN input_image.px |->
                              IF mask[c] THEN input_image.px[c] ELSE <<White, 0>>]] >>]

InitRemoveBg ==
    /\ pc = "remove_bg"
    /\ img \in BgImages
    /\ remove_bg_failure \in BgFailures
    /\ remove_bg_out = None
    /\ use_lab = FALSE
    /\ color_key_array = <<>>
    /\ stamp_txt = EmptyFile
    /\ IdleDiffuse /\ IdleUi
    /\ IdleMatch /\ IdleStatic /\ IdleGif /\ IdleDither /\ IdleRun

\* img = remove_background(img, message_callback) (lines 1240, 1605); the
\* mask is what the model infers
CallRemoveBackground ==
    /\ pc = "remove_bg"
    /\ \E mask \in [DOMAIN img.px -> BOOLEAN] :
          remove_bg_out' = <<remove_background(img, remove_bg_failure, mask)>>
    /\ pc' = "remove_bg_done"
    /\ UNCHANGED <<use_lab, color_key_array, img, matchVars, staticVars, stamp_txt,
                   gifVars, ditherVars, runVars, remove_bg_failure, diffuseVars, uiVars>>

NextRemoveBg == CallRemoveBackground

SpecRemoveBg == InitRemoveBg /\ [][NextRemoveBg]_vars

\* C21: whatever fails inside remove_background, the call returns the input
\* image unchanged and no exception leaves it.
C21_NeverFailsOutward ==
    (remove_bg_out # None /\ remove_bg_failure # "none") =>
        /\ ~remove_bg_out[1].raised
        /\ remove_bg_out[1].value = <<img>>

----------------------------------------------------------------------------
(* An error-diffusion method followed pixel by pixel through its loop *)

\* pixels of the image: two opaque colours and a fully transparent one
DiffusePixels == {<<Red, 255>>, <<White, 255>>, <<DarkRed, 0>>}

\* 3x3 images, so that the offsets of two columns and two rows have a target;
\* the pixel in the middle may be transparent
DiffuseImages ==
    {image \in Images(3, 3, DiffusePixels) :
        \A c \in DOMAIN image.px : image.px[c][2] = 0 => c = <<1, 1>>}

DiffusePalettes ==
    { <<[number |-> 0, rgb |-> Black], [number |-> 1, rgb |-> White]>> }

\* strength 0.5, 1.0 and 2.0
DiffuseStrengths == {<<1, 2>>, <<1, 1>>, <<2, 1>>}

\* the kernel the method uses at pixel c: the diffusion_matrix of the wrapper
\* (lines 892-956), or the choice by saliency of hybrid_dithering (line 753)
diffusion_matrix_at(mode, image, c) ==
    CASE mode = "Atkinson Dither" -> atkinson_matrix
      [] mode = "Floyd Dither" -> floyd_steinberg_matrix
      [] mode = "Stucki Dither" -> stucki_matrix
      [] mode = "Jarvis Dither" -> jarvis_matrix
      [] mode = "Sierra Dither" -> sierra_matrix
      [] mode = "Hybrid Dither" ->
           IF Saliency(image, c) * 2 > 255 THEN floyd_steinberg_matrix ELSE atkinson_matrix

\* lines 1174-1183 (766-775) seen from outside: the sums neighbor[i] +
\* quant_error[i] * coeff the step at c computes, before min, max and int,
\* as <<target, channel, numerator, denominator>>
Sums(image, px, c, quant_error, strength, matrix) ==
    {<<<<c[1] + matrix[k][1], c[2] + matrix[k][2]>>, i,
       px[<<c[1] + matrix[k][1], c[2] + matrix[k][2]>>][1][i] * strength[2] * matrix[k][4]
          + quant_error[i] * strength[1] * matrix[k][3],
       strength[2] * matrix[k][4]>> :
        k \in {j \in 1..Len(matrix) :
                 /\ <<c[1] + matrix[j][1], c[2] + matrix[j][2]>> \in DOMAIN px
                 /\ alpha_mask(image, <<c[1] + matrix[j][1], c[2] + matrix[j][2]>>)},
        i \in 1..3}

\* img_array = np.clip(img_array, 0, 255).astype(np.uint8) (lines 1185, 777)
np_clip(px) ==
    [c \in DOMAIN px |->
        <<[i \in 1..3 |-> IF px[c][1][i] < 0 THEN 0
                          ELSE IF px[c][1][i] > 255 THEN 255 ELSE px[c][1][i]],
          px[c][2]>>]

InitDiffuse ==
    /\ pc = "diffuse"
    /\ use_lab = FALSE
    /\ color_key_array \in DiffusePalettes
    /\ img \in DiffuseImages
    /\ process_mode \in ErrorDiffusionModes
    /\ process_params \in [strength : DiffuseStrengths, seed : {<<>>}]
    /\ rng_state = 0 /\ calls = <<>>
    /\ img_array = img.px
    /\ scan_k = 0
    /\ quantized = {}
    /\ buffer_log = {}
    /\ IdleBg /\ IdleUi
    /\ IdleMatch /\ IdleStatic /\ IdleGif /\ IdleRun
    /\ stamp_txt = EmptyFile

\* lines 1154-1183 (744-775), one pass of the loop body: the pixel at the
\* scan position skipped when outside alpha_mask, else given the nearest
\* palette RGB and its error spread over the kernel's targets
DiffuseStep ==
    /\ pc = "diffuse"
    /\ scan_k < img.w * img.h
    /\ LET c == ScanTopDown(img.w, img.h)[scan_k + 1]
           color_key == build_color_key(color_key_array)
           strength == process_params.strength
           matrix == diffusion_matrix_at(process_mode, img, c)
       IN  IF ~alpha_mask(img, c)
           THEN /\ buffer_log' = {}
                /\ UNCHANGED <<img_array, quantized>>
           ELSE \E new_pixel \in {ClosestRgb(img_array[c][1], color_key)} :
                   /\ img_array' = DiffusePixel(img, img_array, c, color_key, strength,
                                                matrix)
                   /\ quantized' = quantized \cup {<<c, new_pixel>>}
                   /\ buffer_log' =
                        Sums(img, img_array, c,
                             [i \in 1..3 |-> img_array[c][1][i] - new_pixel[i]],
                             strength, matrix)
    /\ scan_k' = scan_k + 1
    /\ UNCHANGED <<pc, use_lab, color_key_array, img, matchVars, staticVars, stamp_txt,
                   gifVars, ditherVars, runVars, bgVars, uiVars>>

\* lines 1185-1192 (777-784): the loop is over, the buffer clipped and
\* turned into the image returned
DiffuseReturn ==
    /\ pc = "diffuse"
    /\ scan_k = img.w * img.h
    /\ img_array' = np_clip(img_array)
    /\ buffer_log' = {}
    /\ pc' = "diffuse_done"
    /\ UNCHANGED <<use_lab, color_key_array, img, matchVars, staticVars, stamp_txt,
                   gifVars, ditherVars, runVars, bgVars, uiVars, scan_k, quantized>>

NextDiffuse == DiffuseStep \/ DiffuseReturn

SpecDiffuse == InitDiffuse /\ [][NextDiffuse]_vars

\* the loop followed step by step ends with the pixels process_image returns
DiffuseAgrees ==
    pc = "diffuse_done" =>
        img_array = process_image(img, build_color_key(color_key_array), process_mode,
                                  process_params, rng_state).px


\* C23: at every step of an error-diffusion method, whatever the strength and
\* the kernel, every R, G, B value of the working buffer is in 0..255, and a
\* value that received diffused error was stored as int(min(max(sum, 0),
\* 255)) by the step that computed the sum.
C23_ImmediateClipping ==
    pc \in {"diffuse", "diffuse_done"} =>
        /\ \A c \in DOMAIN img_array : \A i \in 1..3 : img_array[c][1][i] \in 0..255
        /\ \A s \in buffer_log :
              LET v == img_array[s[1]][1][s[2]]
              IN  IF s[3] <= 0 THEN v = 0
                  ELSE IF s[3] >= 255 * s[4] THEN v = 255
                  ELSE v * s[4] <= s[3] /\ s[3] < (v + 1) * s[4]

\* the latest step has computed a sum above 255 for a pixel of the buffer
C23_Witness ==
    /\ pc = "diffuse"
    /\ \E s \in buffer_log : s[3] > 255 * s[4]

\* the kernels of the error-diffusion methods
DiffusionMatrices ==
    {atkinson_matrix, stucki_matrix, floyd_steinberg_matrix, jarvis_matrix, sierra_matrix}

\* C24: every offset of every kernel points to a pixel later in raster order
\* (same row to the right, or a lower row); a pixel the loop has quantized
\* keeps the RGB it was given; in the image returned every pixel with alpha >
\* 0 has the RGB of a palette entry.
C24_QuantizedFinal ==
    /\ \A matrix \in DiffusionMatrices : \A k \in 1..Len(matrix) :
          matrix[k][2] > 0 \/ (matrix[k][2] = 0 /\ matrix[k][1] > 0)
    /\ pc \in {"diffuse", "diffuse_done"} =>
          \A q \in quantized : img_array[q[1]][1] = q[2]
    /\ pc = "diffuse_done" =>
          \A c \in DOMAIN img_array :
              img.px[c][2] > 0 =>
                  \E k \in 1..Len(color_key_array) :
                      img_array[c][1] = color_key_array[k].rgb

\* the loop is over on an image in which a pixel received error from a pixel
\* quantized before it (its RGB is no longer the input's) and a pixel is
\* transparent
C24_Witness ==
    /\ pc = "diffuse_done"
    /\ Cardinality(quantized) = 8
    /\ \E c \in DOMAIN img_array : img.px[c][2] = 0
    /\ \E c \in DOMAIN img_array : img.px[c][2] > 0 /\ img_array[c][1] # img.px[c][1]

----------------------------------------------------------------------------
(* The palette options of MainWindow: per colour an Enable, an RGB and a    *)
(* Blank checkbox.  A checkbox emits toggled, and so runs its handler, when  *)
(* its state changes: on a click, or on a setChecked with another value.     *)
(* The window is handled as the record w of its five attributes.             *)

\* MainWindow.default_color_key_array (lines 2090-2097)
default_color_key_array ==
    << [number |-> 0, rgb |-> <<255, 231, 197>>],
       [number |-> 1, rgb |-> <<42, 56, 68>>],
       [number |-> 2, rgb |-> <<215, 11, 93>>],
       [number |-> 3, rgb |-> <<13, 179, 158>>],
       [number |-> 4, rgb |-> <<244, 192, 9>>],
       [number |-> 6, rgb |-> <<186, 195, 87>>] >>

\* the keys of the three checkbox dicts
ColorNumbers ==
    {default_color_key_array[k].number : k \in 1..Len(default_color_key_array)}

Window ==
    [color_checkboxes |-> color_checkboxes,
     rgb_checkboxes |-> rgb_checkboxes,
     blank_checkboxes |-> blank_checkboxes,
     current_boost_color |-> current_boost_color,
     current_blank_color |-> current_blank_color]

\* variant of LastDisabled: the last colour may be disabled
LastDisabled_never(w, enabled) == FALSE

\* line 4003: not enabled and all(not cb.isChecked() for cb in
\* self.color_checkboxes.values())
LastDisabled(w, enabled) ==
    ~enabled /\ \A n \in ColorNumbers : ~w.color_checkboxes[n]

\* toggle_enable_options, lines 3997-4010, run when the Enable checkbox of
\* color_number has changed to enabled; setChecked(True) of line 4004 changes
\* the checkbox back and runs the handler again with True
RECURSIVE toggle_enable_options(_, _, _)
toggle_enable_options(w, color_number, enabled) ==
    IF LastDisabled(w, enabled)
    THEN toggle_enable_options([w EXCEPT !.color_checkboxes[color_number] = TRUE],
                               color_number, TRUE)
    ELSE [w EXCEPT !.rgb_checkboxes[color_number].visible = enabled,
                   !.blank_checkboxes[color_number].visible = enabled]

\* variant of ActiveOther: the checkbox checked before is left checked
ActiveOther_never(current, color_number) == FALSE

\* lines 4062, 4098: self.current_..._color is not None and
\* self.current_..._color != color_number
ActiveOther(current, color_number) ==
    current # None /\ current[1] # color_number

RECURSIVE toggle_rgb(_, _, _)
RECURSIVE toggle_blank(_, _, _)

\* self.rgb_checkboxes[n].setChecked(False)
rgb_uncheck(w, n) ==
    IF ~w.rgb_checkboxes[n].checked THEN w
    ELSE toggle_rgb([w EXCEPT !.rgb_checkboxes[n].checked = FALSE], n, FALSE)

\* self.blank_checkboxes[n].setChecked(False)
blank_uncheck(w, n) ==
    IF ~w.blank_checkboxes[n].checked THEN w
    ELSE toggle_blank([w EXCEPT !.blank_checkboxes[n].checked = FALSE], n, FALSE)

\* toggle_rgb, lines 4086-4129, run when the RGB checkbox of color_number has
\* changed to checked
toggle_rgb(w, color_number, checked) ==
    IF checked
    THEN LET w1 == IF ActiveOther(w.current_boost_color, color_number)
                   THEN rgb_uncheck(w, w.current_boost_color[1]) ELSE w
             w2 == [w1 EXCEPT !.current_boost_color = <<color_number>>]
         IN  blank_uncheck(w2, color_number)
    ELSE [w EXCEPT !.current_boost_color = None]

\* toggle_blank, lines 4049-4083, run when the Blank checkbox of color_number
\* has changed to checked
toggle_blank(w, color_number, checked) ==
    IF checked
    THEN LET w1 == IF ActiveOther(w.current_blank_color, color_number)
                   THEN blank_uncheck(w, w.current_blank_color[1]) ELSE w
             w2 == [w1 EXCEPT !.current_blank_color = <<color_number>>]
         IN  rgb_uncheck(w2, color_number)
    ELSE [w EXCEPT !.current_blank_color = None]

\* reset_color_options, lines 4250-4257 (and 4468-4476), for the first k
\* colours: Enable checked, RGB and Blank unchecked and visible
RECURSIVE reset_color_options(_, _)
reset_color_options(w, k) ==
    IF k = 0 THEN w
    ELSE LET n == default_color_key_array[k].number
             w0 == reset_color_options(w, k - 1)
             w1 == IF w0.color_checkboxes[n] THEN w0
                   ELSE toggle_enable_options([w0 EXCEPT !.color_checkboxes[n] = TRUE],
                                              n, TRUE)
             w2 == rgb_uncheck(w1, n)
             w3 == blank_uncheck([w2 EXCEPT !.rgb_checkboxes[n].visible = TRUE], n)
         IN  [w3 EXCEPT !.blank_checkboxes[n].visible = TRUE]

\* the first colour, in the order of the dict, whose checkbox is checked:
\* <<number>>, or None
FirstChecked(boxes) ==
    LET marked == {k \in 1..Len(default_color_key_array) :
                      boxes[default_color_key_array[k].number].checked}
    IN  IF marked = {} THEN None
        ELSE <<default_color_key_array[CHOOSE k \in marked : \A j \in marked : k <= j].number>>

\* MainWindow.process_image, lines 4796-4833: the enabled colours copied in
\* order, the entry of the colour marked RGB renumbered 5, then the entry of
\* the colour marked Blank renumbered -1
MainWindow_process_image(w) ==
    LET enabled == SelectSeq(default_color_key_array,
                             LAMBDA color : w.color_checkboxes[color.number])
        rgb_color_number == FirstChecked(w.rgb_checkboxes)
        blank_color_num == FirstChecked(w.blank_checkboxes)
        with_rgb == [k \in 1..Len(enabled) |->
                        IF rgb_color_number # None /\ enabled[k].number = rgb_color_number[1]
                        THEN [enabled[k] EXCEPT !.number = 5] ELSE enabled[k]]
    IN  [k \in 1..Len(with_rgb) |->
            IF blank_color_num # None /\ with_rgb[k].number = blank_color_num[1]
            THEN [with_rgb[k] EXCEPT !.number = -1] ELSE with_rgb[k]]

\* the window as __init__ leaves it (lines 3790-3791, 3862-3885)
InitUi ==
    /\ pc = "ui"
    /\ color_checkboxes = [n \in ColorNumbers |-> TRUE]
    /\ rgb_checkboxes = [n \in ColorNumbers |-> [checked |-> FALSE, visible |-> TRUE]]
    /\ blank_checkboxes = [n \in ColorNumbers |-> [checked |-> FALSE, visible |-> TRUE]]
    /\ current_boost_color = None
    /\ current_blank_color = None
    /\ use_lab = FALSE
    /\ color_key_array = <<>>
    /\ img = [w |-> 1, h |-> 1, px |-> [c \in Coords(1, 1) |-> <<White, 255>>]]
    /\ stamp_txt = EmptyFile
    /\ IdleBg /\ IdleDiffuse
    /\ IdleMatch /\ IdleStatic /\ IdleGif /\ IdleDither /\ IdleRun

SetWindow(w) ==
    /\ color_checkboxes' = w.color_checkboxes
    /\ rgb_checkboxes' = w.rgb_checkboxes
    /\ blank_checkboxes' = w.blank_checkboxes
    /\ current_boost_color' = w.current_boost_color
    /\ current_blank_color' = w.current_blank_color

\* the user clicks the Enable checkbox of colour n
ClickEnable(n) ==
    /\ pc = "ui"
    /\ SetWindow(toggle_enable_options(
                    [Window EXCEPT !.color_checkboxes[n] = ~color_checkboxes[n]],
                    n, ~color_checkboxes[n]))
    /\ UNCHANGED <<pc, use_lab, color_key_array, img, matchVars, staticVars, stamp_txt,
                   gifVars, ditherVars, runVars, bgVars, diffuseVars>>

\* the user clicks the RGB checkbox of colour n, which is there to click
ClickRgb(n) ==
    /\ pc = "ui"
    /\ rgb_checkboxes[n].visible
    /\ SetWindow(toggle_rgb(
                    [Window EXCEPT !.rgb_checkboxes[n].checked = ~rgb_checkboxes[n].checked],
                    n, ~rgb_checkboxes[n].checked))
    /\ UNCHANGED <<pc, use_lab, color_key_array, img, matchVars, staticVars, stamp_txt,
                   gifVars, ditherVars, runVars, bgVars, diffuseVars>>

\* the user clicks the Blank checkbox of colour n, which is there to click
ClickBlank(n) ==
    /\ pc = "ui"
    /\ blank_checkboxes[n].visible
    /\ SetWindow(toggle_blank(
                    [Window EXCEPT !.blank_checkboxes[n].checked =
                                       ~blank_checkboxes[n].checked],
                    n, ~blank_checkboxes[n].checked))
    /\ UNCHANGED <<pc, use_lab, color_key_array, img, matchVars, staticVars, stamp_txt,
                   gifVars, ditherVars, runVars, bgVars, diffuseVars>>

\* the refresh button (line 2831) or an image opened (lines 4468-4476)
ResetColorOptions ==
    /\ pc = "ui"
    /\ SetWindow(reset_color_options(Window, Len(default_color_key_array)))
    /\ UNCHANGED <<pc, use_lab, color_key_array, img, matchVars, staticVars, stamp_txt,
                   gifVars, ditherVars, runVars, bgVars, diffuseVars>>

\* MainWindow.process_image, lines 4796-4833: color_key_array built for the
\* run that starts
StartProcessing ==
    /\ pc = "ui"
    /\ color_key_array' = MainWindow_process_image(Window)
    /\ pc' = "ui_run"
    /\ UNCHANGED <<use_lab, img, matchVars, staticVars, stamp_txt,
                   gifVars, ditherVars, runVars, bgVars, diffuseVars, uiVars>>

\* the run is over; its color_key_array is gone with it
ProcessingOver ==
    /\ pc = "ui_run"
    /\ color_key_array' = <<>>
    /\ pc' = "ui"
    /\ UNCHANGED <<use_lab, img, matchVars, staticVars, stamp_txt,
                   gifVars, ditherVars, runVars, bgVars, diffuseVars, uiVars>>

NextUi ==
    \/ \E n \in ColorNumbers : ClickEnable(n)
    \/ \E n \in ColorNumbers : ClickRgb(n)
    \/ \E n \in ColorNumbers : ClickBlank(n)
    \/ ResetColorOptions
    \/ StartProcessing
    \/ ProcessingOver

SpecUi == InitUi /\ [][NextUi]_vars

\* C27: after any sequence of clicks on the Enable checkboxes and of resets
\* at least one colour is enabled, and the color_key_array built by
\* MainWindow.process_image has at least one entry.
C27_PaletteNeverEmpty ==
    pc \in {"ui", "ui_run"} =>
        /\ \E n \in ColorNumbers : color_checkboxes[n]
        /\ pc = "ui_run" => Len(color_key_array) >= 1

\* the palette is built with one colour enabled: the others were unchecked by
\* clicks
C27_Witness ==
    /\ pc = "ui_run"
    /\ Cardinality({n \in ColorNumbers : color_checkboxes[n]}) = 1
    /\ Len(color_key_array) = 1

\* C28: after any sequence of clicks on the RGB and Blank checkboxes at most
\* one colour has RGB checked, at most one has Blank checked and none has
\* both; the color_key_array built by MainWindow.process_image has pairwise
\* distinct numbers, so at most one entry numbered 5 and at most one -1.
C28_ReservedCodesOnce ==
    pc \in {"ui", "ui_run"} =>
        /\ Cardinality({n \in ColorNumbers : rgb_checkboxes[n].checked}) <= 1
        /\ Cardinality({n \in ColorNumbers : blank_checkboxes[n].checked}) <= 1
        /\ \A n \in ColorNumbers :
              ~(rgb_checkboxes[n].checked /\ blank_checkboxes[n].checked)
        /\ \A j, k \in 1..Len(color_key_array) :
              j # k => color_key_array[j].number # color_key_array[k].number

\* the palette is built with an entry numbered 5 and an entry numbered -1
C28_Witness ==
    /\ pc = "ui_run"
    /\ \E k \in 1..Len(color_key_array) : color_key_array[k].number = 5
    /\ \E k \in 1..Len(color_key_array) : color_key_array[k].number = -1

----------------------------------------------------------------------------
(* The whole model *)

Init ==
    \/ InitMatch \/ InitStatic \/ InitGif \/ InitGifDelays \/ InitDither \/ InitRun
    \/ InitExact \/ InitRemoveBg \/ InitDiffuse \/ InitUi

Next ==
    \/ NextMatch \/ NextStatic \/ NextGif \/ NextDither \/ NextRun
    \/ NextExact \/ NextRemoveBg \/ NextDiffuse \/ NextUi

Spec == Init /\ [][Next]_vars

====
